---- MODULE Spec2Model ----
(***************************************************************************)
(* Model of the call-swapper core: the feasibility rule engine             *)
(* (src/domain/rules.ts, src/domain/shabbos.ts), the pressure score        *)
(* (src/domain/simipar.ts) and the worker pool that evaluates pair batches *)
(* (src/engine/workerPool.ts, src/engine/worker.ts).                       *)
(*                                                                         *)
(* Time.  An instant is an integer number of hours in the local time zone  *)
(* of the process; hour 0 is Monday 00:00.  A calendar date (the code's    *)
(* 'YYYY-MM-DD' string) is the day index h \div 24.  ISO strings are taken *)
(* in one canonical format, so that comparing them as strings orders them  *)
(* as instants.                                                            *)
(***************************************************************************)
EXTENDS Integers, Sequences, FiniteSets, TLC

(***************************************************************************)
(* Calendar helpers (dayjs).                                               *)
(***************************************************************************)
\* dayjs(iso).startOf('day').format('YYYY-MM-DD')
DayOf(h) == h \div 24

\* dayjs(iso).hour()
HourOf(h) == h % 24

\* dayjs(iso).day(): 0 = Sunday .. 6 = Saturday; day index 0 is a Monday
DayOfWeek(h) == (DayOf(h) + 1) % 7

FRIDAY == 5
SATURDAY == 6
WEEKEND_DAYS == {0, 6}
SATURDAY_DAYTIME_TYPES == {"MOSES", "WEILER"}
SHIFT_TYPES == {"MOSES", "WEILER", "IP CONSULT", "NIGHT FLOAT", "BACKUP"}
BACKUP_SOFT_TYPES == {"BACKUP"}
EMPTY_SOFT_TYPES == {}

isWeekend(iso) == DayOfWeek(iso) \in WEEKEND_DAYS

isWeekendOrHoliday(shift) ==
  IF shift.isHoliday THEN TRUE
  ELSE isWeekend(shift.startISO) \/ isWeekend(shift.endISO)

(***************************************************************************)
(* shabbos.ts                                                              *)
(***************************************************************************)
isFridayCall(shift) == DayOfWeek(shift.startISO) = FRIDAY

isNightFloat(shift) == shift.type = "NIGHT FLOAT"

isSaturdayNightFloat(shift) ==
  IF ~isNightFloat(shift) THEN FALSE
  ELSE DayOfWeek(shift.startISO) = SATURDAY

\* variant: 17:00 still counts as daytime
isSaturdayDaytimeCallUntil17(shift) ==
  IF shift.type \notin SATURDAY_DAYTIME_TYPES THEN FALSE
  ELSE IF DayOfWeek(shift.startISO) # SATURDAY THEN FALSE
  ELSE HourOf(shift.startISO) <= 17

isSaturdayDaytimeCall(shift) ==
  IF shift.type \notin SATURDAY_DAYTIME_TYPES THEN FALSE
  ELSE IF DayOfWeek(shift.startISO) # SATURDAY THEN FALSE
  ELSE HourOf(shift.startISO) < 17

\* shiftsByResident is a function from resident ids to sequences of shifts
resolveShabbosObservers(shiftsByResident) ==
  { residentId \in DOMAIN shiftsByResident :
      ~(\E i \in 1..Len(shiftsByResident[residentId]) :
          isSaturdayDaytimeCall(shiftsByResident[residentId][i])) }

(***************************************************************************)
(* rules.ts: helpers                                                       *)
(***************************************************************************)
hasOverlap(aStartISO, aEndISO, bStartISO, bEndISO) ==
  aStartISO < bEndISO /\ bStartISO < aEndISO

\* The rotation labels of the model and what the patterns of rules.ts match.
\* CALL_BLOCK_ROTATION_PATTERNS as the set of labels they match.
CALL_BLOCK_ROTATION_PATTERNS == {"Vacation", "Research", "US Scanning"}
MRI_COURSE_PATTERN == {"MRI Course"}

\* shift.location / shift.id carry the tier text: "junior", "senior" or "none"
getMosesTier(shift) ==
  IF shift.type # "MOSES" THEN "null"
  ELSE IF shift.location = "junior" THEN "junior"
  ELSE IF shift.location = "senior" THEN "senior"
  ELSE "null"

collectVacationDates(resident) ==
  UNION { resident.rotations[i].vacationDates : i \in 1..Len(resident.rotations) }

isCallBlockedRotation(rotation) == rotation \in CALL_BLOCK_ROTATION_PATTERNS

matchesRotationPattern(value, pattern) == value \in pattern

\* Academic years start on July 1; in the model's calendar July 1 is the
\* first day of week 8, and academic years are numbered 0 (before) and 1.
resolveAcademicYearStartForDate(isoDate) ==
  IF DayOf(isoDate) < 7 * 8 THEN 0 ELSE 1

findResidentAcademicYearLabel(resident, shift) ==
  LET assignments == resident.academicYears
      start == resolveAcademicYearStartForDate(shift.startISO)
      hits == { i \in 1..Len(assignments) : assignments[i].academicYearStartISO = start }
  IN IF hits = {} THEN "null"
     ELSE assignments[CHOOSE i \in hits : \A j \in hits : i <= j].label

isResidentR3ForShift(resident, shift) ==
  findResidentAcademicYearLabel(resident, shift) = "R3"

isRotationBlockedForResident(assignment, resident, shift) ==
  IF isCallBlockedRotation(assignment.rotation) \/ isCallBlockedRotation(assignment.rawRotation)
  THEN TRUE
  ELSE IF ~(matchesRotationPattern(assignment.rotation, MRI_COURSE_PATTERN)
            \/ matchesRotationPattern(assignment.rawRotation, MRI_COURSE_PATTERN))
  THEN FALSE
  ELSE isResidentR3ForShift(resident, shift)

collectRotationBlockedDates(assignment) ==
  LET weekStart == DayOf(assignment.weekStartISO)
  IN {weekStart - 2, weekStart - 1}
       \cup { weekStart + offset : offset \in 0..6 }
       \cup {weekStart + 12, weekStart + 13}

enumerateShiftCalendarDays(shift) == DayOf(shift.startISO)..DayOf(shift.endISO)

NoConflict == [rotation |-> "null", rotationWeekStartISO |-> 0, conflictDates |-> {}]

RECURSIVE shiftRotationConflictsFrom(_, _, _)
shiftRotationConflictsFrom(shift, resident, i) ==
  IF i > Len(resident.rotations) THEN NoConflict
  ELSE LET assignment == resident.rotations[i]
           conflictDates == enumerateShiftCalendarDays(shift)
                              \cap collectRotationBlockedDates(assignment)
       IN IF isRotationBlockedForResident(assignment, resident, shift)
             /\ conflictDates # {}
          THEN [rotation |-> assignment.rotation,
                rotationWeekStartISO |-> assignment.weekStartISO,
                conflictDates |-> conflictDates]
          ELSE shiftRotationConflictsFrom(shift, resident, i + 1)

shiftRotationConflicts(shift, resident) ==
  IF Len(resident.rotations) = 0 THEN NoConflict
  ELSE IF enumerateShiftCalendarDays(shift) = {} THEN NoConflict
  ELSE shiftRotationConflictsFrom(shift, resident, 1)

shiftVacationConflicts(shift, resident) ==
  enumerateShiftCalendarDays(shift) \cap collectVacationDates(resident)

(***************************************************************************)
(* rules.ts: rejection reasons and advisories.  A reason is a record of    *)
(* one shape; the fields a kind does not carry are left "" / {}.           *)
(***************************************************************************)
Reason(kind) ==
  [kind |-> kind, code |-> "", residentId |-> "", shiftId |-> "",
   restriction |-> "", conflictDates |-> {}, rotation |-> ""]

NoReason == Reason("none")

buildShabbosRestriction(resident, incomingShift, restriction) ==
  [Reason("shabbos-restriction") EXCEPT !.residentId = resident.id,
                                        !.shiftId = incomingShift.id,
                                        !.restriction = restriction]

evaluateShabbosRestriction(resident, incomingShift, shabbosObservers) ==
  IF resident.id \in shabbosObservers
  THEN IF isNightFloat(incomingShift) /\ ~isSaturdayNightFloat(incomingShift)
       THEN buildShabbosRestriction(resident, incomingShift, "observer-night-float")
       ELSE IF isFridayCall(incomingShift)
       THEN buildShabbosRestriction(resident, incomingShift, "observer-friday-call")
       ELSE IF isSaturdayDaytimeCall(incomingShift)
       THEN buildShabbosRestriction(resident, incomingShift, "observer-saturday-daytime")
       ELSE NoReason
  ELSE IF isNightFloat(incomingShift) /\ ~isSaturdayNightFloat(incomingShift)
       THEN buildShabbosRestriction(resident, incomingShift, "nonobserver-night-float")
       ELSE NoReason

\* residentSwaps is a sequence of [resident, incoming]
RECURSIVE resolveShabbosRestrictionFrom(_, _, _)
resolveShabbosRestrictionFrom(shabbosObservers, residentSwaps, i) ==
  IF i > Len(residentSwaps) THEN NoReason
  ELSE LET restriction == evaluateShabbosRestriction(residentSwaps[i].resident,
                                                     residentSwaps[i].incoming,
                                                     shabbosObservers)
       IN IF restriction # NoReason THEN restriction
          ELSE resolveShabbosRestrictionFrom(shabbosObservers, residentSwaps, i + 1)

\* variant: only the first person's incoming shift is examined
resolveShabbosRestrictionFirstOnly(shabbosObservers, residentSwaps) ==
  resolveShabbosRestrictionFrom(shabbosObservers, SubSeq(residentSwaps, 1, 1), 1)

resolveShabbosRestrictionForSwap(shabbosObservers, residentSwaps) ==
  resolveShabbosRestrictionFrom(shabbosObservers, residentSwaps, 1)

\* "ok", or the code of the RuleViolationError it throws
assertShiftAllowed(shift, cfg, resident) ==
  IF cfg.typeWhitelist # {} /\ shift.type \notin cfg.typeWhitelist THEN "TYPE_WHITELIST"
  ELSE IF shift.type \notin resident.eligibleShiftTypes THEN "ELIGIBILITY"
  ELSE "ok"

selectBackupPair(first, second, softTypes) ==
  LET firstIsSoft == first.type \in softTypes
      secondIsSoft == second.type \in softTypes
  IN IF firstIsSoft /\ ~secondIsSoft THEN [backup |-> first, other |-> second]
     ELSE IF ~firstIsSoft /\ secondIsSoft THEN [backup |-> second, other |-> first]
     ELSE [backup |-> first, other |-> second]

buildOverlapAdvisory(prev, current, resident, softTypes) ==
  LET sel == selectBackupPair(prev, current, softTypes)
  IN [kind |-> "backup-conflict", code |-> "OVERLAP", residentId |-> resident.id,
      backupShiftId |-> sel.backup.id, otherShiftId |-> sel.other.id]

buildRestAdvisory(prev, current, resident, softTypes, restHours, restHoursMin) ==
  LET sel == selectBackupPair(prev, current, softTypes)
  IN [kind |-> "backup-conflict", code |-> "REST_WINDOW", residentId |-> resident.id,
      backupShiftId |-> sel.backup.id, otherShiftId |-> sel.other.id,
      restHours |-> restHours, minimumRestHours |-> restHoursMin]

\* variant: only a soft earlier shift softens a violation
evaluatePairEarlierSoft(prev, current, cfg, resident, softTypes) ==
  LET involvesSoftType == prev.type \in softTypes
      overlap == hasOverlap(prev.startISO, prev.endISO, current.startISO, current.endISO)
      restHoursMin == cfg.restHoursMin
      restHours == current.startISO - prev.endISO
      short == restHoursMin > 0 /\ restHours < restHoursMin
      a1 == IF overlap THEN <<buildOverlapAdvisory(prev, current, resident, softTypes)>>
            ELSE <<>>
      a2 == IF short
            THEN <<buildRestAdvisory(prev, current, resident, softTypes, restHours, restHoursMin)>>
            ELSE <<>>
  IN IF overlap /\ ~involvesSoftType THEN [error |-> "OVERLAP", advisories |-> <<>>]
     ELSE IF short /\ ~involvesSoftType THEN [error |-> "REST_WINDOW", advisories |-> <<>>]
     ELSE [error |-> "none", advisories |-> a1 \o a2]

\* variant: a rest of exactly the minimum is refused too
evaluatePairInclusive(prev, current, cfg, resident, softTypes) ==
  LET involvesSoftType == prev.type \in softTypes \/ current.type \in softTypes
      overlap == hasOverlap(prev.startISO, prev.endISO, current.startISO, current.endISO)
      restHoursMin == cfg.restHoursMin
      restHours == current.startISO - prev.endISO
      short == restHoursMin > 0 /\ restHours <= restHoursMin
      a1 == IF overlap THEN <<buildOverlapAdvisory(prev, current, resident, softTypes)>>
            ELSE <<>>
      a2 == IF short
            THEN <<buildRestAdvisory(prev, current, resident, softTypes, restHours, restHoursMin)>>
            ELSE <<>>
  IN IF overlap /\ ~involvesSoftType THEN [error |-> "OVERLAP", advisories |-> <<>>]
     ELSE IF short /\ ~involvesSoftType THEN [error |-> "REST_WINDOW", advisories |-> <<>>]
     ELSE [error |-> "none", advisories |-> a1 \o a2]

\* [error |-> "none" or the code thrown, advisories |-> the advisories returned]
evaluatePair(prev, current, cfg, resident, softTypes) ==
  LET involvesSoftType == prev.type \in softTypes \/ current.type \in softTypes
      overlap == hasOverlap(prev.startISO, prev.endISO, current.startISO, current.endISO)
      restHoursMin == cfg.restHoursMin
      restHours == current.startISO - prev.endISO
      short == restHoursMin > 0 /\ restHours < restHoursMin
      a1 == IF overlap THEN <<buildOverlapAdvisory(prev, current, resident, softTypes)>>
            ELSE <<>>
      a2 == IF short
            THEN <<buildRestAdvisory(prev, current, resident, softTypes, restHours, restHoursMin)>>
            ELSE <<>>
  IN IF overlap /\ ~involvesSoftType THEN [error |-> "OVERLAP", advisories |-> <<>>]
     ELSE IF short /\ ~involvesSoftType THEN [error |-> "REST_WINDOW", advisories |-> <<>>]
     ELSE [error |-> "none", advisories |-> a1 \o a2]

\* variant: every adjacent pair is evaluated
shouldEvaluatePairAlways(prev, current, focusShiftIds) == TRUE

\* variant: a pair is in focus only when its earlier shift is
shouldEvaluatePairEarlierOnly(prev, current, focusShiftIds) ==
  IF ~focusShiftIds.defined THEN TRUE
  ELSE prev.id \in focusShiftIds.ids

shouldEvaluatePair(prev, current, focusShiftIds) ==
  IF ~focusShiftIds.defined THEN TRUE
  ELSE prev.id \in focusShiftIds.ids \/ current.id \in focusShiftIds.ids

\* [...shifts].sort((a, b) => a.startISO.localeCompare(b.startISO)): a stable sort
RECURSIVE InsertByStart(_, _)
InsertByStart(sorted, shift) ==
  IF sorted = <<>> THEN <<shift>>
  ELSE IF sorted[Len(sorted)].startISO <= shift.startISO THEN Append(sorted, shift)
  ELSE Append(InsertByStart(SubSeq(sorted, 1, Len(sorted) - 1), shift), sorted[Len(sorted)])

RECURSIVE SortByStart(_)
SortByStart(shifts) ==
  IF shifts = <<>> THEN <<>>
  ELSE InsertByStart(SortByStart(SubSeq(shifts, 1, Len(shifts) - 1)), shifts[Len(shifts)])

\* focusShiftIds: [defined |-> BOOLEAN, ids |-> set of ids] (options?.focusShiftIds)
FocusOn(ids) == [defined |-> TRUE, ids |-> ids]
NoFocus == [defined |-> FALSE, ids |-> {}]

\* the first loop of validateResidentTimeline: the first shift not allowed
RECURSIVE assertShiftsAllowedFrom(_, _, _, _, _)
assertShiftsAllowedFrom(sorted, i, cfg, resident, focusShiftIds) ==
  IF i > Len(sorted) THEN "ok"
  ELSE IF focusShiftIds.defined /\ sorted[i].id \notin focusShiftIds.ids
  THEN assertShiftsAllowedFrom(sorted, i + 1, cfg, resident, focusShiftIds)
  ELSE LET r == assertShiftAllowed(sorted[i], cfg, resident)
       IN IF r # "ok" THEN r
          ELSE assertShiftsAllowedFrom(sorted, i + 1, cfg, resident, focusShiftIds)

\* the second loop: adjacent pairs in start order
RECURSIVE evaluatePairsFrom(_, _, _, _, _, _, _)
evaluatePairsFrom(sorted, i, cfg, resident, focusShiftIds, softTypes, advisories) ==
  IF i > Len(sorted) THEN [error |-> "none", advisories |-> advisories]
  ELSE IF ~shouldEvaluatePair(sorted[i - 1], sorted[i], focusShiftIds)
  THEN evaluatePairsFrom(sorted, i + 1, cfg, resident, focusShiftIds, softTypes, advisories)
  ELSE LET r == evaluatePair(sorted[i - 1], sorted[i], cfg, resident, softTypes)
       IN IF r.error # "none" THEN [error |-> r.error, advisories |-> <<>>]
          ELSE evaluatePairsFrom(sorted, i + 1, cfg, resident, focusShiftIds, softTypes,
                                 advisories \o r.advisories)

\* a startISO that is not a string (null): it has no localeCompare
NoStart == -1

Malformed(shift) == shift.startISO = NoStart

\* [...shifts].sort((a, b) => a.startISO.localeCompare(b.startISO)) raises a
\* TypeError: to order two entries without a startISO the comparator has to
\* be called with one of them as `a`.  (With a single such entry the call is
\* the engine's choice; the inputs hold none or two.)
SortFaults(shifts) == Cardinality({ i \in 1..Len(shifts) : Malformed(shifts[i]) }) >= 2

\* [error |-> "none", the RuleViolationError code or the name of another
\* error, residentId, advisories]
validateResidentTimeline(shifts, cfg, resident, focusShiftIds, softTypes) ==
  IF SortFaults(shifts)
  THEN [error |-> "TypeError", residentId |-> "", advisories |-> <<>>]
  ELSE
  LET sorted == SortByStart(shifts)
      allowed == assertShiftsAllowedFrom(sorted, 1, cfg, resident, focusShiftIds)
      pairs == evaluatePairsFrom(sorted, 2, cfg, resident, focusShiftIds, softTypes, <<>>)
  IN IF allowed # "ok"
     THEN [error |-> allowed, residentId |-> resident.id, advisories |-> <<>>]
     ELSE [error |-> pairs.error, residentId |-> resident.id, advisories |-> pairs.advisories]

(***************************************************************************)
(* rules.ts: prepareSwap, evaluateSwap, explainSwap                        *)
(***************************************************************************)
\* an absent argument (undefined)
Undefined == [id |-> "undefined"]

\* ctx.residentsById.get(id) is defined
HasResident(ctx, id) == id \in DOMAIN ctx.residentsById

\* ctx.shiftsByResident.get(id) ?? []
ShiftsOf(ctx, id) ==
  IF id \in DOMAIN ctx.shiftsByResident THEN ctx.shiftsByResident[id] ELSE <<>>

\* variant: neither the whitelist nor the eligibility of the pair is checked
prepareSwapUngated(a, b, ctx) ==
  IF a = Undefined \/ b = Undefined \/ ctx = Undefined THEN Reason("missing-input")
  ELSE IF a.id = b.id THEN [Reason("identical-shift") EXCEPT !.shiftId = a.id]
  ELSE IF a.residentId = b.residentId
  THEN [Reason("same-resident") EXCEPT !.residentId = a.residentId]
  ELSE IF ~HasResident(ctx, a.residentId) \/ ~HasResident(ctx, b.residentId)
  THEN Reason("resident-missing")
  ELSE IF getMosesTier(a) # "null" /\ getMosesTier(b) # "null"
          /\ getMosesTier(a) # getMosesTier(b)
  THEN Reason("moses-tier-mismatch")
  ELSE IF isWeekendOrHoliday(a) # isWeekendOrHoliday(b) THEN Reason("weekend-mismatch")
  ELSE NoReason

\* variant: the owners are looked up before they are compared
prepareSwapLookupFirst(a, b, ctx) ==
  IF a = Undefined \/ b = Undefined \/ ctx = Undefined THEN Reason("missing-input")
  ELSE IF a.id = b.id THEN [Reason("identical-shift") EXCEPT !.shiftId = a.id]
  ELSE IF ~HasResident(ctx, a.residentId) \/ ~HasResident(ctx, b.residentId)
  THEN Reason("resident-missing")
  ELSE IF a.residentId = b.residentId
  THEN [Reason("same-resident") EXCEPT !.residentId = a.residentId]
  ELSE IF getMosesTier(a) # "null" /\ getMosesTier(b) # "null"
          /\ getMosesTier(a) # getMosesTier(b)
  THEN Reason("moses-tier-mismatch")
  ELSE IF isWeekendOrHoliday(a) # isWeekendOrHoliday(b) THEN Reason("weekend-mismatch")
  ELSE IF ctx.ruleConfig.typeWhitelist # {}
          /\ (a.type \notin ctx.ruleConfig.typeWhitelist
              \/ b.type \notin ctx.ruleConfig.typeWhitelist)
  THEN Reason("type-whitelist")
  ELSE IF b.type \notin ctx.residentsById[a.residentId].eligibleShiftTypes
  THEN [Reason("eligibility-a") EXCEPT !.residentId = a.residentId]
  ELSE IF a.type \notin ctx.residentsById[b.residentId].eligibleShiftTypes
  THEN [Reason("eligibility-b") EXCEPT !.residentId = b.residentId]
  ELSE NoReason

\* the failure of prepareSwap, NoReason when it returns data
prepareSwap(a, b, ctx) ==
  IF a = Undefined \/ b = Undefined \/ ctx = Undefined THEN Reason("missing-input")
  ELSE IF a.id = b.id THEN [Reason("identical-shift") EXCEPT !.shiftId = a.id]
  ELSE IF a.residentId = b.residentId
  THEN [Reason("same-resident") EXCEPT !.residentId = a.residentId]
  ELSE IF ~HasResident(ctx, a.residentId) \/ ~HasResident(ctx, b.residentId)
  THEN Reason("resident-missing")
  ELSE IF getMosesTier(a) # "null" /\ getMosesTier(b) # "null"
          /\ getMosesTier(a) # getMosesTier(b)
  THEN Reason("moses-tier-mismatch")
  ELSE IF isWeekendOrHoliday(a) # isWeekendOrHoliday(b) THEN Reason("weekend-mismatch")
  ELSE IF ctx.ruleConfig.typeWhitelist # {}
          /\ (a.type \notin ctx.ruleConfig.typeWhitelist
              \/ b.type \notin ctx.ruleConfig.typeWhitelist)
  THEN Reason("type-whitelist")
  ELSE IF b.type \notin ctx.residentsById[a.residentId].eligibleShiftTypes
  THEN [Reason("eligibility-a") EXCEPT !.residentId = a.residentId]
  ELSE IF a.type \notin ctx.residentsById[b.residentId].eligibleShiftTypes
  THEN [Reason("eligibility-b") EXCEPT !.residentId = b.residentId]
  ELSE NoReason

\* array.filter((shift) => shift.id !== id)
RECURSIVE WithoutId(_, _)
WithoutId(shifts, id) ==
  IF shifts = <<>> THEN <<>>
  ELSE IF Head(shifts).id = id THEN WithoutId(Tail(shifts), id)
  ELSE <<Head(shifts)>> \o WithoutId(Tail(shifts), id)

Rejected(reason, advisories) ==
  [feasible |-> FALSE, reason |-> reason, advisories |-> advisories]

Accepted(advisories) ==
  [feasible |-> TRUE, reason |-> NoReason, advisories |-> advisories]

\* the post-swap timeline of the owner of `given` who receives `received`
PostSwapTimeline(ctx, given, received) ==
  Append(WithoutId(ShiftsOf(ctx, given.residentId), given.id),
         [received EXCEPT !.residentId = given.residentId])

\* type RuleViolationCode
RuleViolationCodes == {"OVERLAP", "REST_WINDOW", "ELIGIBILITY", "TYPE_WHITELIST"}

\* variant: every error is reported as a rule violation
catchAsRuleViolation(raised, advisories) ==
  Rejected([Reason("rule-violation") EXCEPT !.code = raised.error,
                                            !.residentId = raised.residentId],
           advisories)

\* the catch block of evaluateSwap for the error a validation raised
catchTimelineError(raised, advisories) ==
  IF raised.error \in RuleViolationCodes
  THEN Rejected([Reason("rule-violation") EXCEPT !.code = raised.error,
                                                 !.residentId = raised.residentId],
                advisories)
  ELSE Rejected(Reason("unexpected-error"), advisories)

\* lines 674-793 of evaluateSwap, after prepareSwap returned data
evaluatePrepared(shiftA, shiftB, ctx) ==
  LET residentA == ctx.residentsById[shiftA.residentId]
      residentB == ctx.residentsById[shiftB.residentId]
      swappedForA == [shiftB EXCEPT !.residentId = residentA.id]
      swappedForB == [shiftA EXCEPT !.residentId = residentB.id]
      timelineA == PostSwapTimeline(ctx, shiftA, shiftB)
      timelineB == PostSwapTimeline(ctx, shiftB, shiftA)
      shabbosRestriction ==
        resolveShabbosRestrictionForSwap(ctx.shabbosObservers,
          << [resident |-> residentA, incoming |-> swappedForA],
             [resident |-> residentB, incoming |-> swappedForB] >>)
      vacationConflictsA == shiftVacationConflicts(swappedForA, residentA)
      rotationBlockA == shiftRotationConflicts(swappedForA, residentA)
      vacationConflictsB == shiftVacationConflicts(swappedForB, residentB)
      rotationBlockB == shiftRotationConflicts(swappedForB, residentB)
      validA == validateResidentTimeline(timelineA, ctx.ruleConfig, residentA,
                                         FocusOn({swappedForA.id}), BACKUP_SOFT_TYPES)
      validB == validateResidentTimeline(timelineB, ctx.ruleConfig, residentB,
                                         FocusOn({swappedForB.id}), BACKUP_SOFT_TYPES)
  IN IF shabbosRestriction # NoReason THEN Rejected(shabbosRestriction, <<>>)
     ELSE IF vacationConflictsA # {}
     THEN Rejected([Reason("vacation-conflict") EXCEPT !.residentId = residentA.id,
                       !.shiftId = swappedForA.id, !.conflictDates = vacationConflictsA], <<>>)
     ELSE IF rotationBlockA # NoConflict
     THEN Rejected([Reason("rotation-block") EXCEPT !.residentId = residentA.id,
                       !.shiftId = swappedForA.id, !.rotation = rotationBlockA.rotation,
                       !.conflictDates = rotationBlockA.conflictDates], <<>>)
     ELSE IF vacationConflictsB # {}
     THEN Rejected([Reason("vacation-conflict") EXCEPT !.residentId = residentB.id,
                       !.shiftId = swappedForB.id, !.conflictDates = vacationConflictsB], <<>>)
     ELSE IF rotationBlockB # NoConflict
     THEN Rejected([Reason("rotation-block") EXCEPT !.residentId = residentB.id,
                       !.shiftId = swappedForB.id, !.rotation = rotationBlockB.rotation,
                       !.conflictDates = rotationBlockB.conflictDates], <<>>)
     ELSE IF validA.error # "none" THEN catchTimelineError(validA, <<>>)
     ELSE IF validB.error # "none" THEN catchTimelineError(validB, validA.advisories)
     ELSE Accepted(validA.advisories \o validB.advisories)

evaluateSwap(a, b, ctx) ==
  LET failure == prepareSwap(a, b, ctx)
  IN IF failure # NoReason THEN Rejected(failure, <<>>)
     ELSE evaluatePrepared(a, b, ctx)

explainSwap(a, b, ctx) == evaluateSwap(a, b, ctx)

isFeasibleSwap(a, b, ctx) == evaluateSwap(a, b, ctx).feasible

(***************************************************************************)
(* Exact arithmetic for the pressure score: a number is a fraction         *)
(* <<numerator, denominator>> in lowest terms with a positive denominator. *)
(***************************************************************************)
Abs(n) == IF n < 0 THEN -n ELSE n

Max(x, y) == IF x >= y THEN x ELSE y

RECURSIVE GCD(_, _)
GCD(x, y) == IF y = 0 THEN Abs(x) ELSE GCD(y, x % y)

Rat(n, d) ==
  LET g == GCD(Abs(n), Abs(d))
      sign == IF d < 0 THEN -1 ELSE 1
  IN <<sign * (n \div g), sign * (d \div g)>>

Zero == <<0, 1>>

RatAdd(x, y) ==
  LET g == GCD(x[2], y[2])
  IN Rat(x[1] * (y[2] \div g) + y[1] * (x[2] \div g), (x[2] \div g) * y[2])

RatNeg(x) == <<-x[1], x[2]>>

RatSub(x, y) == RatAdd(x, RatNeg(y))

\* x times the integer k
RatScale(x, k) ==
  LET g == GCD(Abs(k), x[2])
  IN Rat(x[1] * (k \div g), x[2] \div g)

RatMul(x, y) ==
  LET g1 == GCD(Abs(x[1]), y[2])
      g2 == GCD(Abs(y[1]), x[2])
  IN Rat((x[1] \div g1) * (y[1] \div g2), (x[2] \div g2) * (y[2] \div g1))

\* x / y for y # 0
RatDiv(x, y) == RatMul(x, Rat(y[2], y[1]))

RatLess(x, y) == x[1] * y[2] < y[1] * x[2]

RatMax(x, y) == IF RatLess(x, y) THEN y ELSE x

\* the sum of f[k] over the keys k in S
RECURSIVE RatSum(_, _)
RatSum(f, S) ==
  IF S = {} THEN Zero
  ELSE LET k == CHOOSE x \in S : TRUE
       IN RatAdd(f[k], RatSum(f, S \ {k}))

(***************************************************************************)
(* simipar.ts: calculateSwapPressure.  The model keeps the three scores of *)
(* the breakdown and the totals of its two sections.                       *)
(***************************************************************************)
COMFORTABLE_REST_BUFFER_HOURS == 12
CALL_WINDOW_DAYS == 4
CALL_WINDOW_HOURS == CALL_WINDOW_DAYS * 24
\* MIN_CLOSENESS is 1 / MIN_CLOSENESS_INVERSE
MIN_CLOSENESS_INVERSE == 1000
SCORE_SCALE == 100
IP_CONSULT_MISMATCH_PENALTY == -50
ROTATION_PRESSURE_BONUS == 100

\* the labels ROTATION_PRESSURE_PATTERNS and ROTATION_MAMMO_PATTERN match
ROTATION_PRESSURE_PATTERNS == {"GI", "Wet Desk", "Angio", "M Neuro & Procedures", "Mammo"}

computeGapHours(focusStart, focusEnd, otherStart, otherEnd) ==
  IF otherEnd <= focusStart THEN focusStart - otherEnd
  ELSE IF otherStart >= focusEnd THEN otherStart - focusEnd
  ELSE 0

normaliseGap(value, restMin, comfortable) ==
  IF value <= restMin THEN Zero
  ELSE IF value >= comfortable THEN <<1, 1>>
  ELSE Rat(value - restMin, comfortable - restMin)

\* the contribution of one other shift to a scenario, none when it is skipped
Contribution(focusShift, other, restMin) ==
  LET comfortable == Max(restMin + COMFORTABLE_REST_BUFFER_HOURS, CALL_WINDOW_HOURS)
      distanceHours == Abs(focusShift.startISO - other.startISO)
      closenessRaw == Rat(CALL_WINDOW_HOURS - distanceHours, CALL_WINDOW_HOURS)
      closeness == IF closenessRaw[1] > 0 THEN closenessRaw ELSE <<1, MIN_CLOSENESS_INVERSE>>
      gapHours == computeGapHours(focusShift.startISO, focusShift.endISO,
                                  other.startISO, other.endISO)
      restValue == normaliseGap(gapHours, restMin, comfortable)
  IN [shift |-> other, closeness |-> closeness, penalty |-> RatSub(restValue, <<1, 1>>)]

\* contributions as a function of the shift id; a later shift of the same id
\* replaces an earlier one
RECURSIVE collectScenarioFrom(_, _, _, _)
collectScenarioFrom(focusShift, otherShifts, restMin, i) ==
  IF i = 0 THEN << >>
  ELSE LET before == collectScenarioFrom(focusShift, otherShifts, restMin, i - 1)
           other == otherShifts[i]
       IN IF other.type = "BACKUP" THEN before
          ELSE IF Abs(focusShift.startISO - other.startISO) > CALL_WINDOW_HOURS THEN before
          ELSE [id \in DOMAIN before \cup {other.id} |->
                  IF id = other.id THEN Contribution(focusShift, other, restMin)
                  ELSE before[id]]

collectScenario(focusShift, otherShifts, restMin) ==
  collectScenarioFrom(focusShift, otherShifts, restMin, Len(otherShifts))

\* a section: its calls and its totals
Section(residentId, focusShiftId, calls, baselineTotal, swappedTotal, deltaTotal) ==
  [residentId |-> residentId, focusShiftId |-> focusShiftId, calls |-> calls,
   baselineTotal |-> baselineTotal, swappedTotal |-> swappedTotal,
   deltaTotal |-> deltaTotal]

ZERO_CALLS == <<>>

\* a call of a section: shiftId, weight and the three contributions (type,
\* times, calendar context and rotation label are display data, not kept)
Call(shiftId, weight, baseline, swapped, delta) ==
  [shiftId |-> shiftId, weight |-> weight, baseline |-> baseline, swapped |-> swapped,
   delta |-> delta]

RatAbs(x) == <<Abs(x[1]), x[2]>>

\* the shift ids of the model in the order of localeCompare
ShiftIdOrder ==
  <<"o1", "o2", "p1", "p2", "q1", "q2", "r1", "sa", "sb", "sx", "x", "x1", "x2", "x3", "x4">>

\* a.shiftId.localeCompare(b.shiftId) < 0
IdBefore(x, y) ==
  \E i, j \in 1..Len(ShiftIdOrder) : ShiftIdOrder[i] = x /\ ShiftIdOrder[j] = y /\ i < j

\* the comparator of calls.sort: larger |delta| first, then larger weight,
\* then the smaller shift id
CallBefore(c, d) ==
  IF RatAbs(c.delta) # RatAbs(d.delta) THEN RatLess(RatAbs(d.delta), RatAbs(c.delta))
  ELSE IF c.weight # d.weight THEN RatLess(d.weight, c.weight)
  ELSE IdBefore(c.shiftId, d.shiftId)

\* calls.sort(...) of calls with distinct shift ids
RECURSIVE SortCalls(_)
SortCalls(calls) ==
  IF calls = {} THEN <<>>
  ELSE LET first == CHOOSE c \in calls : \A d \in calls \ {c} : CallBefore(c, d)
       IN <<first>> \o SortCalls(calls \ {first})

\* buildSection from the two scenarios on: weights, normalisation and totals
weighSection(baselineShift, baseline, swapped) ==
  LET mergedIds == DOMAIN baseline \cup DOMAIN swapped
      weight == [id \in mergedIds |->
                   RatMax(IF id \in DOMAIN baseline THEN baseline[id].closeness ELSE Zero,
                          IF id \in DOMAIN swapped THEN swapped[id].closeness ELSE Zero)]
      entries == { id \in mergedIds : RatLess(Zero, weight[id]) }
      totalWeight == RatSum(weight, entries)
      normalizedWeight == [id \in entries |-> RatDiv(weight[id], totalWeight)]
      baselineContribution ==
        [id \in entries |-> IF id \in DOMAIN baseline
                            THEN RatMul(baseline[id].penalty, normalizedWeight[id])
                            ELSE Zero]
      swappedContribution ==
        [id \in entries |-> IF id \in DOMAIN swapped
                            THEN RatMul(swapped[id].penalty, normalizedWeight[id])
                            ELSE Zero]
      baselineTotal == RatSum(baselineContribution, entries)
      swappedTotal == RatSum(swappedContribution, entries)
  IN IF entries = {}
     THEN Section(baselineShift.residentId, baselineShift.id, ZERO_CALLS, Zero, Zero, Zero)
     ELSE Section(baselineShift.residentId, baselineShift.id,
                  SortCalls({ Call(id, weight[id], baselineContribution[id],
                                   swappedContribution[id],
                                   RatSub(swappedContribution[id], baselineContribution[id])) :
                              id \in entries }),
                  baselineTotal, swappedTotal, RatSub(swappedTotal, baselineTotal))

buildSection(baselineShift, swappedShift, otherShifts, restMin) ==
  weighSection(baselineShift,
               collectScenario(baselineShift, otherShifts, restMin),
               collectScenario(swappedShift, otherShifts, restMin))

\* variant: a BACKUP is scaled like any other shift
resolveShiftMultiplierBackupScaled(shift) ==
  IF ~isWeekendOrHoliday(shift) /\ shift.type # "NIGHT FLOAT" THEN 1
  ELSE IF isWeekendOrHoliday(shift) /\ shift.type = "NIGHT FLOAT" THEN 4
  ELSE 2

resolveShiftMultiplier(shift) ==
  IF shift.type = "BACKUP" THEN 1
  ELSE IF ~isWeekendOrHoliday(shift) /\ shift.type # "NIGHT FLOAT" THEN 1
  ELSE IF isWeekendOrHoliday(shift) /\ shift.type = "NIGHT FLOAT" THEN 4
  ELSE 2

Breakdown(score, baselineScore, swappedScore, original, counterpart) ==
  [score |-> score, baselineScore |-> baselineScore, swappedScore |-> swappedScore,
   original |-> original, counterpart |-> counterpart]

buildZeroBreakdown(a, b) ==
  Breakdown(Zero, Zero, Zero,
            Section(IF a = Undefined THEN "" ELSE a.residentId,
                    IF a = Undefined THEN "" ELSE a.id, ZERO_CALLS, Zero, Zero, Zero),
            Section(IF b = Undefined THEN "" ELSE b.residentId,
                    IF b = Undefined THEN "" ELSE b.id, ZERO_CALLS, Zero, Zero, Zero))

scaleCall(call, factor) ==
  [call EXCEPT !.baseline = RatScale(@, factor),
               !.swapped = RatScale(@, factor),
               !.delta = RatScale(@, factor)]

scaleSection(section, factor) ==
  [section EXCEPT !.calls = [i \in 1..Len(@) |-> scaleCall(@[i], factor)],
                  !.baselineTotal = RatScale(@, factor),
                  !.swappedTotal = RatScale(@, factor),
                  !.deltaTotal = RatScale(@, factor)]

scaleBreakdown(breakdown, factor) ==
  IF factor = 1 THEN breakdown
  ELSE Breakdown(RatScale(breakdown.score, factor),
                 RatScale(breakdown.baselineScore, factor),
                 RatScale(breakdown.swappedScore, factor),
                 scaleSection(breakdown.original, factor),
                 scaleSection(breakdown.counterpart, factor))

\* shift.location holds "senior" (the id is not searched for 'moses_sr')
isMosesSenior(shift) ==
  IF shift.type # "MOSES" THEN FALSE
  ELSE shift.location = "senior"

hasAssociatedIpConsult(shift, ctx) ==
  IF shift.residentId \notin DOMAIN ctx.shiftsByResident THEN FALSE
  ELSE \E i \in 1..Len(ctx.shiftsByResident[shift.residentId]) :
         LET other == ctx.shiftsByResident[shift.residentId][i]
         IN /\ other.id # shift.id
            /\ other.type = "IP CONSULT"
            /\ DayOf(other.startISO) = DayOf(shift.startISO)

resolveIpConsultPenalty(a, b, ctx) ==
  IF ~isMosesSenior(a) \/ ~isMosesSenior(b) THEN 0
  ELSE IF hasAssociatedIpConsult(a, ctx) = hasAssociatedIpConsult(b, ctx) THEN 0
  ELSE IP_CONSULT_MISMATCH_PENALTY

\* variant: the share reaches the swapped total but not the delta total
appendPenaltySwappedOnly(section, share, shift) ==
  [section EXCEPT !.calls = Append(@, Call("penalty:ip-consult:" \o shift.id, Zero, Zero,
                                           share, share)),
                  !.swappedTotal = RatAdd(@, share)]

appendPenalty(section, share, shift) ==
  [section EXCEPT !.calls = Append(@, Call("penalty:ip-consult:" \o shift.id, Zero, Zero,
                                           share, share)),
                  !.swappedTotal = RatAdd(@, share),
                  !.deltaTotal = RatAdd(@, share)]

applyIpConsultPenalty(breakdown, penalty, originalShift, counterpartShift) ==
  IF penalty = 0 THEN breakdown
  ELSE LET share == Rat(penalty, 2)
       IN Breakdown(RatAdd(breakdown.score, <<penalty, 1>>),
                    breakdown.baselineScore,
                    RatAdd(breakdown.swappedScore, <<penalty, 1>>),
                    appendPenalty(breakdown.original, share, originalShift),
                    appendPenalty(breakdown.counterpart, share, counterpartShift))

NoAssignment == [weekStartISO |-> -1, rotation |-> "", rawRotation |-> "", vacationDates |-> {}]

\* utils/rotations.ts: the last assignment whose week holds the day
RECURSIVE findRotationFrom(_, _, _)
findRotationFrom(assignments, isoDate, index) ==
  IF index < 1 THEN NoAssignment
  ELSE LET weekStart == DayOf(assignments[index].weekStartISO)
       IN IF DayOf(isoDate) < weekStart
          THEN findRotationFrom(assignments, isoDate, index - 1)
          ELSE IF DayOf(isoDate) > weekStart + 6
          THEN findRotationFrom(assignments, isoDate, index - 1)
          ELSE assignments[index]

findRotationForDate(assignments, isoDate) ==
  IF Len(assignments) = 0 THEN NoAssignment
  ELSE findRotationFrom(assignments, isoDate, Len(assignments))

isHighPressureRotationName(value) ==
  IF value = "" THEN FALSE
  ELSE value \in ROTATION_PRESSURE_PATTERNS

\* the value of the bonus; its label is not kept
resolveRotationPressureBonus(resident, shift) ==
  IF Len(resident.rotations) = 0 THEN 0
  ELSE LET assignment == findRotationForDate(resident.rotations, shift.startISO)
       IN IF assignment = NoAssignment THEN 0
          ELSE IF ~(isHighPressureRotationName(assignment.rotation)
                    \/ isHighPressureRotationName(assignment.rawRotation)) THEN 0
          ELSE ROTATION_PRESSURE_BONUS

\* mode is "baseline" or "swapped", sectionKey "original" or "counterpart"
appendRotationPressureCall(breakdown, sectionKey, shift, resident, mode, bonus) ==
  LET section == IF sectionKey = "original" THEN breakdown.original
                 ELSE breakdown.counterpart
      baseline == IF mode = "baseline" THEN <<-bonus, 1>> ELSE Zero
      swapped == IF mode = "baseline" THEN Zero ELSE <<-bonus, 1>>
      delta == IF mode = "baseline" THEN <<bonus, 1>> ELSE <<-bonus, 1>>
      updatedSection == [section EXCEPT !.calls =
                                          Append(@, Call("bonus:rotation:" \o mode \o ":"
                                                           \o shift.id \o ":" \o resident.id,
                                                         Zero, baseline, swapped, delta)),
                                        !.baselineTotal = RatAdd(@, baseline),
                                        !.swappedTotal = RatAdd(@, swapped),
                                        !.deltaTotal = RatAdd(@, delta)]
  IN Breakdown(RatAdd(breakdown.score, delta),
               RatAdd(breakdown.baselineScore, baseline),
               RatAdd(breakdown.swappedScore, swapped),
               IF sectionKey = "original" THEN updatedSection ELSE breakdown.original,
               IF sectionKey = "counterpart" THEN updatedSection ELSE breakdown.counterpart)

applyRotationPressure(breakdown, originalShift, counterpartShift, originalResident, counterpartResident) ==
  LET originalBaseline == resolveRotationPressureBonus(originalResident, originalShift)
      u1 == IF originalBaseline > 0
            THEN appendRotationPressureCall(breakdown, "original", originalShift, originalResident,
                                            "baseline", originalBaseline)
            ELSE breakdown
      originalSwapped == resolveRotationPressureBonus(originalResident, counterpartShift)
      u2 == IF originalSwapped > 0
            THEN appendRotationPressureCall(u1, "original", counterpartShift, originalResident,
                                            "swapped", originalSwapped)
            ELSE u1
      counterpartBaseline == resolveRotationPressureBonus(counterpartResident, counterpartShift)
      u3 == IF counterpartBaseline > 0
            THEN appendRotationPressureCall(u2, "counterpart", counterpartShift,
                                            counterpartResident, "baseline",
                                            counterpartBaseline)
            ELSE u2
      counterpartSwapped == resolveRotationPressureBonus(counterpartResident, originalShift)
  IN IF counterpartSwapped > 0
     THEN appendRotationPressureCall(u3, "counterpart", originalShift, counterpartResident,
                                "swapped", counterpartSwapped)
     ELSE u3

\* calculateSwapPressure from the two sections on: totals, scaling, penalty
\* and rotation pressure
scoreSections(a, b, ctx, originalSection, counterpartSection) ==
  LET baselineScore == RatAdd(originalSection.baselineTotal, counterpartSection.baselineTotal)
      swappedScore == RatAdd(originalSection.swappedTotal, counterpartSection.swappedTotal)
      multiplier == SCORE_SCALE * resolveShiftMultiplier(a) * resolveShiftMultiplier(b)
  IN applyRotationPressure(
       applyIpConsultPenalty(
         scaleBreakdown(Breakdown(RatSub(swappedScore, baselineScore), baselineScore,
                                  swappedScore, originalSection, counterpartSection),
                        multiplier),
         resolveIpConsultPenalty(a, b, ctx), a, b),
       a, b, ctx.residentsById[a.residentId], ctx.residentsById[b.residentId])

\* variant: only the first person's eligibility is checked
calculateSwapPressureOneSided(a, b, ctx) ==
  IF a = Undefined \/ b = Undefined \/ ctx = Undefined THEN buildZeroBreakdown(a, b)
  ELSE IF a.id = b.id \/ a.residentId = b.residentId THEN buildZeroBreakdown(a, b)
  ELSE IF ~HasResident(ctx, a.residentId) \/ ~HasResident(ctx, b.residentId)
  THEN buildZeroBreakdown(a, b)
  ELSE IF b.type \notin ctx.residentsById[a.residentId].eligibleShiftTypes
  THEN buildZeroBreakdown(a, b)
  ELSE
    LET restMin == Max(0, ctx.ruleConfig.restHoursMin)
    IN scoreSections(a, b, ctx,
                     buildSection(a, [b EXCEPT !.residentId = a.residentId],
                                  WithoutId(ShiftsOf(ctx, a.residentId), a.id), restMin),
                     buildSection(b, [a EXCEPT !.residentId = b.residentId],
                                  WithoutId(ShiftsOf(ctx, b.residentId), b.id), restMin))

calculateSwapPressure(a, b, ctx) ==
  IF a = Undefined \/ b = Undefined \/ ctx = Undefined THEN buildZeroBreakdown(a, b)
  ELSE IF a.id = b.id \/ a.residentId = b.residentId THEN buildZeroBreakdown(a, b)
  ELSE IF ~HasResident(ctx, a.residentId) \/ ~HasResident(ctx, b.residentId)
  THEN buildZeroBreakdown(a, b)
  ELSE IF b.type \notin ctx.residentsById[a.residentId].eligibleShiftTypes
  THEN buildZeroBreakdown(a, b)
  ELSE IF a.type \notin ctx.residentsById[b.residentId].eligibleShiftTypes
  THEN buildZeroBreakdown(a, b)
  ELSE
    LET restMin == Max(0, ctx.ruleConfig.restHoursMin)
    IN scoreSections(a, b, ctx,
                     buildSection(a, [b EXCEPT !.residentId = a.residentId],
                                  WithoutId(ShiftsOf(ctx, a.residentId), a.id), restMin),
                     buildSection(b, [a EXCEPT !.residentId = b.residentId],
                                  WithoutId(ShiftsOf(ctx, b.residentId), b.id), restMin))

(***************************************************************************)
(* Inputs of the rule engine: shifts, residents and contexts.              *)
(***************************************************************************)
\* minimum rest hours of the contexts that configure one
RestMin == 3

\* how many further shifts a resident's timeline holds
MaxOthers == 2

Shift(id, residentId, startISO, endISO, type, isHoliday, location) ==
  [id |-> id, residentId |-> residentId, startISO |-> startISO, endISO |-> endISO,
   type |-> type, isHoliday |-> isHoliday, location |-> location]

Rotation(weekStartISO, rotation, vacationDates) ==
  [weekStartISO |-> weekStartISO, rotation |-> rotation, rawRotation |-> rotation,
   vacationDates |-> vacationDates]

Resident(id, eligibleShiftTypes, rotations, academicYears) ==
  [id |-> id, eligibleShiftTypes |-> eligibleShiftTypes, rotations |-> rotations,
   academicYears |-> academicYears]

Context(residents, shiftsByResident, shabbosObservers, restHoursMin, typeWhitelist) ==
  [residentsById |-> residents, shiftsByResident |-> shiftsByResident,
   shabbosObservers |-> shabbosObservers,
   ruleConfig |-> [restHoursMin |-> restHoursMin, typeWhitelist |-> typeWhitelist]]

\* a function with the given keys, as new Map([[k1, v1], [k2, v2]])
Map2(k1, v1, k2, v2) == [k \in {k1, k2} |-> IF k = k1 THEN v1 ELSE v2]

World(family, ctx, a, b) == [family |-> family, ctx |-> ctx, a |-> a, b |-> b]

\* the shifts of one owner among the two of a pair, in start order
Owned(residentId, a, b) ==
  SortByStart(SelectSeq(IF a.id = b.id THEN <<a>> ELSE <<a, b>>,
                        LAMBDA s : s.residentId = residentId))

(***************************************************************************)
(* Family "gate": the checks of prepareSwap.  R1 and R2 are known, R8 and  *)
(* R9 are not; days 1 and 2 are weekdays and day 5 is a Saturday.          *)
(***************************************************************************)
GateEligible == {{"MOSES"}, {"MOSES", "BACKUP"}}

GateWhitelists == {{}, {"MOSES"}, {"MOSES", "BACKUP"}}

GateAs ==
  { Shift("sa", r, 24 + 8, 24 + 20, t, FALSE, l) :
      r \in {"R1", "R9"}, t \in {"MOSES", "BACKUP"}, l \in {"junior", "senior"} }

GateBs ==
  { Shift("sb", r, d * 24 + 8, d * 24 + 20, t, FALSE, l) :
      r \in {"R1", "R2", "R8", "R9"}, d \in {2, 5},
      t \in {"MOSES", "BACKUP"}, l \in {"junior", "senior"} }
    \cup { Shift("sa", r, 24 + 8, 24 + 20, "MOSES", FALSE, "junior") :
             r \in {"R1", "R2", "R9"} }

GateWorld(e1, e2, wl, a, b) ==
  World("gate",
        Context(Map2("R1", Resident("R1", e1, <<>>, <<>>),
                     "R2", Resident("R2", e2, <<>>, <<>>)),
                Map2("R1", Owned("R1", a, b), "R2", Owned("R2", a, b)),
                {}, RestMin, wl),
        a, b)

(***************************************************************************)
(* Family "timeline": R1 gives away a and receives b = [30, 34) on day 1   *)
(* while holding up to MaxOthers further two-hour shifts around it.        *)
(***************************************************************************)
AllTypes == SHIFT_TYPES

Anyone(id, rotations) == Resident(id, AllTypes, rotations, <<>>)

OtherShifts ==
  { Shift("x", "R1", s, s + 2, t, FALSE, "none") :
      s \in {20, 23, 25, 26, 27, 28, 29, 31, 33, 35, 36, 37, 38}, t \in {"MOSES", "BACKUP"} }

\* the id of the n-th further shift
OtherId(n) == IF n = 1 THEN "x1" ELSE IF n = 2 THEN "x2" ELSE IF n = 3 THEN "x3" ELSE "x4"

\* the start of the last shift of a timeline, 0 for the empty one
LastStart(tl) == IF tl = <<>> THEN 0 ELSE tl[Len(tl)].startISO

\* timelines of at most n further shifts with strictly increasing starts
RECURSIVE SortedTimelines(_)
SortedTimelines(n) ==
  IF n = 0 THEN {<<>>}
  ELSE LET shorter == SortedTimelines(n - 1)
       IN shorter
          \cup UNION { { Append(tl, [x EXCEPT !.id = OtherId(n)]) :
                           x \in { o \in OtherShifts : o.startISO > LastStart(tl) } } :
                       tl \in { t \in shorter : Len(t) = n - 1 } }

TimelineAs ==
  { Shift("sa", "R1", 22, 23, "BACKUP", FALSE, "none"),
    Shift("sa", "R1", 54, 58, "MOSES", FALSE, "none") }

TimelineBs == { Shift("sb", "R2", 30, 34, t, FALSE, "none") : t \in {"MOSES", "BACKUP"} }

TimelineWorld(others, m, a, b) ==
  World("timeline",
        Context(Map2("R1", Anyone("R1", <<>>), "R2", Anyone("R2", <<>>)),
                Map2("R1", SortByStart(Append(others, a)), "R2", <<b>>),
                {}, m, {}),
        a, b)

(***************************************************************************)
(* Family "rotation": R1 holds one rotation assignment whose week starts   *)
(* on day RotationWeekStart (a Monday) and receives b on a day around it;  *)
(* R2 holds one whose week starts on the Monday of a's week.               *)
(***************************************************************************)
RotationWeekStart == 14

\* a shift for R2 to receive: on a Saturday or on a Wednesday of week 5
Counterpart(weekendOrHoliday) ==
  IF weekendOrHoliday THEN Shift("sa", "R1", 40 * 24 + 8, 40 * 24 + 20, "MOSES", FALSE, "none")
  ELSE Shift("sa", "R1", 37 * 24 + 8, 37 * 24 + 20, "MOSES", FALSE, "none")

RotationBs ==
  { Shift("sb", "R2", d * 24 + h, d * 24 + h + 12, "MOSES", FALSE, "none") :
      d \in (RotationWeekStart - 4)..(RotationWeekStart + 15), h \in {8, 20} }

RotationWorld(rot1, rot2, label, vac1, vac2, b) ==
  LET a == Counterpart(isWeekendOrHoliday(b))
  IN World("rotation",
           Context(Map2("R1", Resident("R1", AllTypes,
                                <<Rotation(RotationWeekStart * 24, rot1,
                                           IF vac1 THEN {DayOf(b.startISO)} ELSE {})>>,
                                <<[academicYearStartISO |-> 0, label |-> label]>>),
                        "R2", Resident("R2", AllTypes,
                                <<Rotation(35 * 24, rot2,
                                           IF vac2 THEN {DayOf(a.startISO)} ELSE {})>>,
                                <<>>)),
                   Map2("R1", <<a>>, "R2", <<b>>),
                   {}, RestMin, {}),
           a, b)

(***************************************************************************)
(* Family "shabbos": single shifts from Thursday (day 3) to Sunday (day 6) *)
(* of every kind the Shabbos rules tell apart, and any set of observers.   *)
(***************************************************************************)
ShabbosAs ==
  { Shift("sa", "R1", d * 24 + h, d * 24 + h + 4, t, FALSE, "none") :
      d \in {3, 4, 5}, h \in {8, 19}, t \in {"MOSES", "NIGHT FLOAT"} }

ShabbosBs ==
  { Shift("sb", "R2", d * 24 + h, d * 24 + h + 4, t, FALSE, "none") :
      d \in 3..6, h \in {8, 16, 17},
      t \in {"MOSES", "WEILER", "IP CONSULT", "NIGHT FLOAT"} }

ShabbosWorld(observers, a, b) ==
  World("shabbos",
        Context(Map2("R1", Anyone("R1", <<>>), "R2", Anyone("R2", <<>>)),
                Map2("R1", <<a>>, "R2", <<b>>),
                observers, RestMin, {}),
        a, b)

(***************************************************************************)
(* engine/contextTransfer.ts: a context crosses to a worker as arrays.     *)
(***************************************************************************)
\* Array.from(map.entries()): the entries <<key, value>> in some fixed order
RECURSIVE Entries(_)
Entries(map) ==
  IF DOMAIN map = {} THEN <<>>
  ELSE LET k == CHOOSE x \in DOMAIN map : TRUE
       IN <<<<k, map[k]>>>> \o Entries([x \in DOMAIN map \ {k} |-> map[x]])

\* new Map(entries): the last entry of a key wins
FromEntries(entries) ==
  [k \in { entries[i][1] : i \in 1..Len(entries) } |->
     entries[CHOOSE i \in 1..Len(entries) :
               /\ entries[i][1] = k
               /\ \A j \in (i + 1)..Len(entries) : entries[j][1] # k][2]]

\* Array.from(set)
RECURSIVE Elements(_)
Elements(set) ==
  IF set = {} THEN <<>>
  ELSE LET e == CHOOSE x \in set : TRUE
       IN <<e>> \o Elements(set \ {e})

serializeContext(ctx) ==
  [ruleConfig |-> ctx.ruleConfig,
   residentsById |-> Entries(ctx.residentsById),
   shiftsByResident |-> Entries(ctx.shiftsByResident),
   shabbosObservers |-> Elements(ctx.shabbosObservers)]

hydrateContext(data) ==
  [ruleConfig |-> data.ruleConfig,
   residentsById |-> FromEntries(data.residentsById),
   shiftsByResident |-> FromEntries(data.shiftsByResident),
   shabbosObservers |-> { data.shabbosObservers[i] : i \in 1..Len(data.shabbosObservers) }]

(***************************************************************************)
(* engine/workerPool.ts and engine/worker.ts: evaluating a batch of pairs. *)
(***************************************************************************)
\* the member of a one-element set; { e(x) : x \in {v} } evaluates v once
Only(set) == CHOOSE x \in set : TRUE

Candidate(pair, evaluation, ctx) ==
  Only({ [a |-> pair.a, b |-> pair.b, score |-> pressure.score, pressure |-> pressure,
          advisories |-> evaluation.advisories] :
         pressure \in {calculateSwapPressure(pair.a, pair.b, ctx)} })

\* variant: a reason seen again is not counted again
CountReasonOnce(rejectionReasons, key) ==
  [k \in DOMAIN rejectionReasons \cup {key} |->
     IF k \in DOMAIN rejectionReasons THEN rejectionReasons[k] ELSE 1]

\* rejectionReasons.set(key, (rejectionReasons.get(key) ?? 0) + 1)
CountReason(rejectionReasons, key) ==
  [k \in DOMAIN rejectionReasons \cup {key} |->
     (IF k \in DOMAIN rejectionReasons THEN rejectionReasons[k] ELSE 0)
     + (IF k = key THEN 1 ELSE 0)]

Sample(evaluation, pair) ==
  [reason |-> evaluation.reason, shiftA |-> pair.a.id, shiftB |-> pair.b.id]

\* one round of the loop over the pairs, from the results of the rounds before
EvaluateRound(before, pair, evaluation, ctx) ==
  IF ~evaluation.feasible
  THEN [before EXCEPT
          !.rejectionReasons = CountReason(@, evaluation.reason.kind),
          !.samples = IF Len(@) < 10 THEN Append(@, Sample(evaluation, pair)) ELSE @]
  ELSE [before EXCEPT !.out = Append(@, Candidate(pair, evaluation, ctx)),
                      !.accepted = @ + 1]

\* the loop over the pairs: candidates, reason counts and samples after pair i
RECURSIVE EvaluateLoop(_, _, _)
EvaluateLoop(pairs, ctx, i) ==
  IF i = 0 THEN [out |-> <<>>, rejectionReasons |-> << >>, samples |-> <<>>, accepted |-> 0]
  ELSE Only({ EvaluateRound(before, pairs[i], evaluation, ctx) :
                before \in {EvaluateLoop(pairs, ctx, i - 1)},
                evaluation \in {explainSwap(pairs[i].a, pairs[i].b, ctx)} })

evaluatePairsSync(pairs, ctx) == EvaluateLoop(pairs, ctx, Len(pairs)).out

NoDiagnostics == [defined |-> FALSE]

Diagnostics(totalPairs, accepted, rejectionReasons, samples) ==
  [defined |-> TRUE, totalPairs |-> totalPairs, accepted |-> accepted,
   rejectionReasons |-> rejectionReasons, samples |-> samples]

\* the diagnostics evaluatePairsSync has built when it returns
syncDiagnostics(pairs, ctx) ==
  Only({ Diagnostics(Len(pairs), loop.accepted, loop.rejectionReasons, loop.samples) :
         loop \in {EvaluateLoop(pairs, ctx, Len(pairs))} })

\* swapEngine's summarizeRejections: the same loop without the candidates
summarizeRejections(pairs, ctx) ==
  Only({ Diagnostics(Len(pairs), loop.accepted, loop.rejectionReasons, loop.samples) :
         loop \in {EvaluateLoop(pairs, ctx, Len(pairs))} })

\* worker.ts: the response posted for a WorkerIn message
onmessage(message) ==
  Only({ [kind |-> "pairsEvaluated",
          candidates |-> loop.out,
          chunkSize |-> Len(message.pairs),
          diagnostics |-> Diagnostics(Len(message.pairs), Len(loop.out),
                                      loop.rejectionReasons, loop.samples)] :
         loop \in {EvaluateLoop(message.pairs, hydrateContext(message.ctx),
                                Len(message.pairs))} })

CANDIDATE_WORKER_THRESHOLD == 200
MAX_POOL_SIZE == 4

Min(x, y) == IF x <= y THEN x ELSE y

\* target[reason] = (target[reason] ?? 0) + count, for every entry of source
addReasonCounts(target, source) ==
  [k \in DOMAIN target \cup DOMAIN source |->
     (IF k \in DOMAIN target THEN target[k] ELSE 0)
     + (IF k \in DOMAIN source THEN source[k] ELSE 0)]

\* the first ten samples of the entries, in order
RECURSIVE collectSamples(_)
collectSamples(entries) ==
  IF entries = <<>> THEN <<>>
  ELSE LET all == Head(entries).samples \o collectSamples(Tail(entries))
       IN SubSeq(all, 1, Min(10, Len(all)))

RECURSIVE SumAccepted(_)
SumAccepted(present) ==
  IF present = <<>> THEN 0 ELSE Head(present).accepted + SumAccepted(Tail(present))

RECURSIVE SumTotalPairs(_)
SumTotalPairs(present) ==
  IF present = <<>> THEN 0 ELSE Head(present).totalPairs + SumTotalPairs(Tail(present))

RECURSIVE MergeReasons(_)
MergeReasons(present) ==
  IF present = <<>> THEN << >>
  ELSE addReasonCounts(MergeReasons(SubSeq(present, 1, Len(present) - 1)),
                       present[Len(present)].rejectionReasons)

mergeDiagnostics(entries) ==
  LET present == SelectSeq(entries, LAMBDA entry : entry.defined)
  IN IF Len(present) = 0 THEN NoDiagnostics
     ELSE Diagnostics(SumTotalPairs(present), SumAccepted(present),
                      MergeReasons(present), collectSamples(present))

\* explicitSize 0 stands for an absent size, hardwareConcurrency 0 for a
\* navigator without one
detectPoolSize(explicitSize, hardwareConcurrency) ==
  IF explicitSize > 0 THEN explicitSize
  ELSE LET hardware == IF hardwareConcurrency > 0 THEN Max(1, hardwareConcurrency - 1)
                       ELSE 1
       IN Max(1, Min(MAX_POOL_SIZE, hardware))

\* spawn: [factory |-> BOOLEAN, allowNoGlobalWorker |-> BOOLEAN]
canSpawnWorkers(spawn, globalWorker) ==
  IF ~spawn.factory THEN FALSE
  ELSE IF ~spawn.allowNoGlobalWorker /\ ~globalWorker THEN FALSE
  ELSE TRUE

\* new SwapWorkerPool(options): threshold -1 and size 0 stand for absent options
SwapWorkerPool(threshold, workerFactory, size, globalWorker, hardwareConcurrency) ==
  [threshold |-> IF threshold < 0 THEN CANDIDATE_WORKER_THRESHOLD ELSE threshold,
   spawnability |-> [factory |-> workerFactory \/ globalWorker,
                     allowNoGlobalWorker |-> workerFactory],
   size |-> detectPoolSize(size, hardwareConcurrency),
   globalWorker |-> globalWorker,
   adapters |-> 0,
   terminated |-> FALSE]

\* variant: a pool of one slot dispatches too
shouldUseWorkersAnySize(p, candidateCount) ==
  IF ~canSpawnWorkers(p.spawnability, p.globalWorker) THEN FALSE
  ELSE candidateCount >= p.threshold

shouldUseWorkers(p, candidateCount) ==
  IF ~canSpawnWorkers(p.spawnability, p.globalWorker) THEN FALSE
  ELSE IF p.size <= 1 THEN FALSE
  ELSE candidateCount >= p.threshold

\* variant: a single worker is created, whatever the size
ensureAdaptersOne(p) ==
  IF p.adapters > 0 \/ ~canSpawnWorkers(p.spawnability, p.globalWorker) THEN p.adapters
  ELSE 1

\* the number of adapters after ensureAdapters
ensureAdapters(p) ==
  IF p.adapters > 0 \/ ~canSpawnWorkers(p.spawnability, p.globalWorker) THEN p.adapters
  ELSE p.size

\* Math.ceil(n / d)
CeilDiv(n, d) == (n + d - 1) \div d

\* variant: the slice starts one pair late
SliceFromNext(pairs, i, chunkSize) == SubSeq(pairs, i + 2, Min(Len(pairs), i + chunkSize))

\* pairs.slice(i, i + chunkSize) with i counted from 0
Slice(pairs, i, chunkSize) == SubSeq(pairs, i + 1, Min(Len(pairs), i + chunkSize))

\* variant: every chunk goes to the first adapter
DispatchTasksToFirst(pairs, serializedCtx, adapters) ==
  LET chunkSize == Max(1, CeilDiv(Len(pairs), adapters))
      count == CeilDiv(Len(pairs), chunkSize)
  IN [k \in 1..count |->
        [message |-> [kind |-> "evaluatePairs",
                      pairs |-> Slice(pairs, (k - 1) * chunkSize, chunkSize),
                      ctx |-> serializedCtx],
         adapter |-> 0,
         state |-> "queued",
         response |-> [kind |-> "none"]]]

\* the tasks of the dispatch loop: chunk k (from 0) goes to adapter k % adapters
DispatchTasks(pairs, serializedCtx, adapters) ==
  LET chunkSize == Max(1, CeilDiv(Len(pairs), adapters))
      count == CeilDiv(Len(pairs), chunkSize)
  IN [k \in 1..count |->
        [message |-> [kind |-> "evaluatePairs",
                      pairs |-> Slice(pairs, (k - 1) * chunkSize, chunkSize),
                      ctx |-> serializedCtx],
         adapter |-> (k - 1) % adapters,
         state |-> "queued",
         response |-> [kind |-> "none"]]]

\* variant: the chunk results are put together last chunk first
RECURSIVE flatMapCandidatesLastFirst(_)
flatMapCandidatesLastFirst(results) ==
  IF results = <<>> THEN <<>>
  ELSE flatMapCandidatesLastFirst(Tail(results)) \o Head(results).candidates

\* results.flatMap((item) => item.candidates)
RECURSIVE flatMapCandidates(_)
flatMapCandidates(results) ==
  IF results = <<>> THEN <<>>
  ELSE Head(results).candidates \o flatMapCandidates(Tail(results))

\* variant: only absent diagnostics count as a mismatch
diagnosticsMissing(diagnostics, flattened) == ~diagnostics.defined

diagnosticsMismatch(diagnostics, flattened) ==
  ~diagnostics.defined \/ diagnostics.accepted # Len(flattened)

\* variant: the merged worker output is returned unchecked
settleResultsUnchecked(pairs, ctx, results) == flatMapCandidates(results)

\* the diagnostics evaluatePairs holds when it returns: the merged ones, and
\* after a fallback the merged ones (or an empty summary) with the serial
\* accepted count
settleDiagnostics(pairs, ctx, results) ==
  LET flattened == flatMapCandidates(results)
      diagnostics == mergeDiagnostics([i \in 1..Len(results) |-> results[i].diagnostics])
  IN IF Len(pairs) > 0 /\ diagnosticsMismatch(diagnostics, flattened)
     THEN IF diagnostics.defined
          THEN [diagnostics EXCEPT !.accepted = Len(evaluatePairsSync(pairs, ctx))]
          ELSE Diagnostics(Len(pairs), Len(evaluatePairsSync(pairs, ctx)), << >>, <<>>)
     ELSE diagnostics

\* what evaluatePairs returns once every task has its result
settleResults(pairs, ctx, results) ==
  LET flattened == flatMapCandidates(results)
      diagnostics == mergeDiagnostics([i \in 1..Len(results) |-> results[i].diagnostics])
  IN IF Len(pairs) > 0 /\ diagnosticsMismatch(diagnostics, flattened)
     THEN evaluatePairsSync(pairs, ctx)
     ELSE flattened

(***************************************************************************)
(* Family "pool": the roster the batches are drawn from.  R1 holds a       *)
(* Tuesday and a Friday call, R2 a Tuesday and a Wednesday call, R3 a      *)
(* Tuesday call; R2 observes Shabbos.                                      *)
(***************************************************************************)
\* how many pairs a batch holds at most
MaxPairs == 3

\* the largest pool size a pool is configured with
MaxSize == 2

p1 == Shift("p1", "R1", 30, 34, "MOSES", FALSE, "none")
p2 == Shift("p2", "R1", 104, 108, "MOSES", FALSE, "none")
q1 == Shift("q1", "R2", 54, 58, "MOSES", FALSE, "none")
q2 == Shift("q2", "R2", 38, 40, "MOSES", FALSE, "none")
r1 == Shift("r1", "R3", 33, 37, "MOSES", FALSE, "none")

PoolWorld ==
  World("pool",
        Context([id \in {"R1", "R2", "R3"} |-> Anyone(id, <<>>)],
                [id \in {"R1", "R2", "R3"} |->
                   IF id = "R1" THEN <<p1, p2>>
                   ELSE IF id = "R2" THEN <<q2, q1>> ELSE <<r1>>],
                {"R2"}, RestMin, {}),
        p1, q1)

ShiftPair(a, b) == [a |-> a, b |-> b]

PairPool == {ShiftPair(p1, q1), ShiftPair(p2, q1), ShiftPair(p1, r1), ShiftPair(q1, r1)}

\* the batches: up to n distinct pairs of the pool in any order
RECURSIVE Batches(_)
Batches(n) ==
  IF n = 0 THEN {<<>>}
  ELSE LET shorter == Batches(n - 1)
       IN shorter \cup
          { Append(batch, pair) :
              <<batch, pair>> \in
                { bp \in shorter \X PairPool :
                    /\ Len(bp[1]) = n - 1
                    /\ \A i \in 1..Len(bp[1]) : bp[1][i] # bp[2] } }

(***************************************************************************)
(* The rule engine as a state machine: a caller holds a pair and a context *)
(* and asks explainSwap in either argument order.                          *)
(***************************************************************************)
VARIABLES world, evalAB, evalBA, pool, batch, mode, pc, tasks, returned,
          dataset, pressure, earlier,
          runtime, pools, singletonPool, workers, jobs, callers,
          validation

rulesVars == <<world, evalAB, evalBA>>

poolVars == <<pool, batch, mode, pc, tasks, returned>>

\* the dataset the context was built from, the last breakdown of
\* calculateSwapPressure, and what was computed before the dataset grew
engineVars == <<dataset, pressure, earlier>>

\* the runtime's globals, every pool object constructed, the module's
\* singleton, the workers of each pool, every task handed to runTask and
\* every evaluatePairs call made
queueVars == <<runtime, pools, singletonPool, workers, jobs, callers>>

vars == <<world, evalAB, evalBA, pool, batch, mode, pc, tasks, returned,
          dataset, pressure, earlier,
          runtime, pools, singletonPool, workers, jobs, callers,
          validation>>

\* a pool nobody has called yet
Idle ==
  /\ batch = <<>>
  /\ mode = "none"
  /\ pc = "idle"
  /\ tasks = <<>>
  /\ returned = <<>>

NotRun == [feasible |-> FALSE, reason |-> Reason("not-run"), advisories |-> <<>>]

NoDataset == [residents |-> <<>>, shifts |-> <<>>]

NotScored == [scored |-> FALSE]

Nothing == [known |-> FALSE]

\* validateResidentTimeline has not been called
NotValidated == [error |-> "not-run", residentId |-> "", advisories |-> <<>>]

NoRuntime == [globalWorker |-> FALSE, hardwareConcurrency |-> 0]

\* let singletonPool: SwapWorkerPool | null = null
null == 0

\* no pool object constructed
QueueIdle ==
  /\ runtime = NoRuntime
  /\ pools = <<>>
  /\ singletonPool = null
  /\ workers = <<>>
  /\ jobs = <<>>
  /\ callers = <<>>

\* no dataset at hand, nothing scored and no pool object constructed
EngineIdle ==
  /\ dataset = NoDataset
  /\ pressure = NotScored
  /\ earlier = Nothing
  /\ QueueIdle

InitRules ==
  /\ \/ \E e1 \in GateEligible, e2 \in GateEligible, wl \in GateWhitelists,
            a \in GateAs, b \in GateBs :
          world = GateWorld(e1, e2, wl, a, b)
     \/ \E others \in SortedTimelines(MaxOthers), m \in {0, RestMin},
            a \in TimelineAs, b \in TimelineBs :
          world = TimelineWorld(others, m, a, b)
     \/ \E rot1 \in {"Vacation", "Body", "MRI Course"}, rot2 \in {"Body", "Research"},
            label \in {"R2", "R3"}, vac1 \in BOOLEAN, vac2 \in BOOLEAN, b \in RotationBs :
          world = RotationWorld(rot1, rot2, label, vac1, vac2, b)
     \/ \E observers \in SUBSET {"R1", "R2"}, a \in ShabbosAs, b \in ShabbosBs :
          world = ShabbosWorld(observers, a, b)
  /\ evalAB = NotRun
  /\ evalBA = NotRun
  /\ pool = SwapWorkerPool(-1, FALSE, 0, FALSE, 0)
  /\ Idle
  /\ validation = NotValidated
  /\ EngineIdle

\* explainSwap(a, b, ctx)
ExplainAB ==
  /\ evalAB = NotRun
  /\ evalAB' = explainSwap(world.a, world.b, world.ctx)
  /\ UNCHANGED <<world, evalBA>>
  /\ UNCHANGED <<poolVars, engineVars, queueVars, validation>>

\* explainSwap(b, a, ctx)
ExplainBA ==
  /\ evalBA = NotRun
  /\ evalBA' = explainSwap(world.b, world.a, world.ctx)
  /\ UNCHANGED <<world, evalAB>>
  /\ UNCHANGED <<poolVars, engineVars, queueVars, validation>>

NextRules == ExplainAB \/ ExplainBA

SpecRules == InitRules /\ [][NextRules]_vars

(***************************************************************************)
(* Family "fault": a hand-built context whose timelines may hold entries   *)
(* without a startISO.  R1 gives away a = [54, 58) and receives            *)
(* b = [30, 34) from R2; R3 and R4 hold c and d, the next pair of the      *)
(* batch, on well-formed timelines.                                        *)
(***************************************************************************)
FaultA == Shift("sa", "R1", 54, 58, "MOSES", FALSE, "none")

FaultB == Shift("sb", "R2", 30, 34, "MOSES", FALSE, "none")

FaultC == Shift("sc", "R3", 56, 60, "MOSES", FALSE, "none")

FaultD == Shift("sd", "R4", 80, 84, "MOSES", FALSE, "none")

NoStartShift(id, residentId) == Shift(id, residentId, NoStart, NoStart, "MOSES", FALSE, "none")

\* what a resident holds besides the shift given away, around hour `at`
\* where the received shift starts
FaultTimelines(residentId, at) ==
  { <<>>,
    << Shift("x1", residentId, at + 1, at + 3, "MOSES", FALSE, "none") >>,
    << Shift("x1", residentId, at + 5, at + 7, "MOSES", FALSE, "none") >>,
    << Shift("x1", residentId, at + 5, at + 7, "BACKUP", FALSE, "none") >>,
    << Shift("x1", residentId, at + 9, at + 11, "MOSES", FALSE, "none") >>,
    << NoStartShift("x1", residentId), NoStartShift("x2", residentId) >>,
    << Shift("x1", residentId, at + 1, at + 3, "MOSES", FALSE, "none"),
       NoStartShift("x2", residentId), NoStartShift("x3", residentId) >> }

FaultWorld(othersA, othersB, m) ==
  [family |-> "fault",
   ctx |-> Context([id \in {"R1", "R2", "R3", "R4"} |-> Anyone(id, <<>>)],
                   [id \in {"R1", "R2", "R3", "R4"} |->
                      IF id = "R1" THEN othersA \o <<FaultA>>
                      ELSE IF id = "R2" THEN othersB \o <<FaultB>>
                      ELSE IF id = "R3" THEN <<FaultC>> ELSE <<FaultD>>],
                   {}, m, {}),
   a |-> FaultA, b |-> FaultB, c |-> FaultC, d |-> FaultD]

InitFault ==
  /\ \E othersA \in FaultTimelines("R1", FaultB.startISO),
        othersB \in FaultTimelines("R2", FaultA.startISO), m \in {0, RestMin} :
       world = FaultWorld(othersA, othersB, m)
  /\ evalAB = NotRun
  /\ evalBA = NotRun
  /\ pool = SwapWorkerPool(-1, FALSE, 0, FALSE, 0)
  /\ Idle
  /\ validation = NotValidated
  /\ EngineIdle

\* pool.evaluatePairsSync([{a, b}, {c, d}], ctx)
EvaluatePairsSync ==
  /\ batch = <<>>
  /\ batch' = <<ShiftPair(world.a, world.b), ShiftPair(world.c, world.d)>>
  /\ returned' = evaluatePairsSync(batch', world.ctx)
  /\ UNCHANGED <<pool, mode, pc, tasks>>
  /\ UNCHANGED <<rulesVars, engineVars, queueVars, validation>>

NextFault == ExplainAB \/ ExplainBA \/ EvaluatePairsSync

SpecFault == InitFault /\ [][NextFault]_vars

(***************************************************************************)
(* Family "consult": R1 holds a on the Wednesday (day 9) and R2 holds b on *)
(* the Thursday (day 10) of the week that starts on day 7; either may be   *)
(* an IP CONSULT, and either resident may be on a rotation that week or    *)
(* the week after.                                                         *)
(***************************************************************************)
ConsultTypes == {"MOSES", "IP CONSULT"}

ConsultRotations == {"Angio", "GI", "Body"}

\* no rotation assignment, or one for the week starting on day 7 or day 14
ConsultAssignments ==
  {<<>>} \cup { <<Rotation(weekStart * 24, rotation, {})>> :
                  weekStart \in {7, 14}, rotation \in ConsultRotations }

ConsultWorld(rotations1, rotations2, ta, tb) ==
  Only({ World("consult",
               Context(Map2("R1", Resident("R1", ConsultTypes, rotations1, <<>>),
                            "R2", Resident("R2", ConsultTypes, rotations2, <<>>)),
                       Map2("R1", <<a>>, "R2", <<b>>),
                       {}, RestMin, {}),
               a, b) :
         a \in {Shift("sa", "R1", 9 * 24 + 8, 9 * 24 + 20, ta, FALSE, "none")},
         b \in {Shift("sb", "R2", 10 * 24 + 8, 10 * 24 + 20, tb, FALSE, "none")} })

InitConsult ==
  /\ \E rotations1 \in ConsultAssignments, rotations2 \in ConsultAssignments,
        ta \in ConsultTypes, tb \in ConsultTypes :
       world = ConsultWorld(rotations1, rotations2, ta, tb)
  /\ evalAB = NotRun
  /\ evalBA = NotRun
  /\ pool = SwapWorkerPool(-1, FALSE, 0, FALSE, 0)
  /\ Idle
  /\ validation = NotValidated
  /\ EngineIdle

SpecConsult == InitConsult /\ [][NextRules]_vars

(***************************************************************************)
(* Family "codes": the timeline family under a whitelist and with          *)
(* residents eligible for some types only.  R1 holds a and at most one     *)
(* further shift, whose type the whitelist or R1's eligibility may exclude.*)
(***************************************************************************)
CodesEligible == {{"MOSES"}, {"MOSES", "BACKUP"}, {"MOSES", "WEILER"}}

\* no further shift, or one MOSES or WEILER shift around b
CodesTimelines ==
  {<<>>} \cup { <<[o EXCEPT !.id = OtherId(1), !.type = t]>> :
                  o \in OtherShifts, t \in {"MOSES", "WEILER"} }

CodesWorld(e1, e2, wl, others, m, a, b) ==
  World("codes",
        Context(Map2("R1", Resident("R1", e1, <<>>, <<>>),
                     "R2", Resident("R2", e2, <<>>, <<>>)),
                Map2("R1", SortByStart(Append(others, a)), "R2", <<b>>),
                {}, m, wl),
        a, b)

InitCodes ==
  /\ \E e1 \in CodesEligible, e2 \in CodesEligible, wl \in GateWhitelists,
        others \in CodesTimelines, m \in {0, RestMin},
        a \in TimelineAs, b \in TimelineBs :
       world = CodesWorld(e1, e2, wl, others, m, a, b)
  /\ evalAB = NotRun
  /\ evalBA = NotRun
  /\ pool = SwapWorkerPool(-1, FALSE, 0, FALSE, 0)
  /\ Idle
  /\ validation = NotValidated
  /\ EngineIdle

SpecCodes == InitCodes /\ [][NextRules]_vars

(***************************************************************************)
(* Family "standalone": validateResidentTimeline called on its own with a  *)
(* timeline of two shifts of R1, the second starting `gap` hours after the *)
(* first one ends.                                                         *)
(***************************************************************************)
StandaloneGaps == {-1, 0, 1, RestMin - 1, RestMin, RestMin + 1}

StandaloneWorld(t1, t2, gap, m, softTypes, focusShiftIds, reversed) ==
  Only({ [family |-> "standalone",
          shifts |-> IF reversed THEN <<second, first>> ELSE <<first, second>>,
          cfg |-> [restHoursMin |-> m, typeWhitelist |-> {}],
          resident |-> Resident("R1", {"MOSES", "BACKUP"}, <<>>, <<>>),
          focusShiftIds |-> focusShiftIds,
          softTypes |-> softTypes] :
         first \in {Shift("B1", "R1", 32, 40, t1, FALSE, "none")},
         second \in {Shift("B2", "R1", 40 + gap, 47 + gap, t2, FALSE, "none")} })

InitStandalone ==
  /\ \E t1 \in {"MOSES", "BACKUP"}, t2 \in {"MOSES", "BACKUP"}, gap \in StandaloneGaps,
        m \in {0, RestMin}, softTypes \in {{}, BACKUP_SOFT_TYPES},
        focusShiftIds \in {NoFocus, FocusOn({"B2"}), FocusOn({"none"})}, reversed \in BOOLEAN :
       world = StandaloneWorld(t1, t2, gap, m, softTypes, focusShiftIds, reversed)
  /\ evalAB = NotRun
  /\ evalBA = NotRun
  /\ pool = SwapWorkerPool(-1, FALSE, 0, FALSE, 0)
  /\ Idle
  /\ validation = NotValidated
  /\ EngineIdle

\* validateResidentTimeline(shifts, cfg, resident, { focusShiftIds, softTypes })
ValidateResidentTimeline ==
  /\ validation = NotValidated
  /\ validation' = validateResidentTimeline(world.shifts, world.cfg, world.resident,
                                            world.focusShiftIds, world.softTypes)
  /\ UNCHANGED <<rulesVars, poolVars, engineVars, queueVars>>

SpecStandalone == InitStandalone /\ [][ValidateResidentTimeline]_vars

(***************************************************************************)
(* The worker pool as a state machine: one pool, one evaluatePairs call in *)
(* flight at a time, the workers answering their chunks in any order.      *)
(***************************************************************************)
Init ==
  /\ world = PoolWorld
  /\ evalAB = NotRun
  /\ evalBA = NotRun
  /\ \E threshold \in {-1, 0, 2}, workerFactory \in BOOLEAN, globalWorker \in BOOLEAN,
        size \in {0, 1, MaxSize}, hardwareConcurrency \in {0, MaxSize + 1} :
       pool = SwapWorkerPool(threshold, workerFactory, size, globalWorker,
                             hardwareConcurrency)
  /\ Idle
  /\ validation = NotValidated
  /\ EngineIdle

\* variant: only a task that was answered frees its adapter's queue
SettledByAnswer(task) == task.state = "answered"

\* the promise runTask returned has resolved or rejected
Settled(task) == task.state \in {"answered", "errored"}

\* the caller makes a call when no earlier call is pending
CanCall == pc = "idle"

\* runTask's this.queue.then(execute) of task i can run: the tasks submitted
\* earlier to its adapter have their results
Ready(i) ==
  /\ tasks[i].state = "queued"
  /\ \A j \in 1..(i - 1) : tasks[j].adapter = tasks[i].adapter => Settled(tasks[j])

\* promise reactions run before the next message or error event is handled
NoMicrotask == \A i \in 1..Len(tasks) : ~Ready(i)

\* evaluatePairs on a terminated pool throws
EvaluatePairsTerminated(pairs) ==
  /\ CanCall
  /\ pool.terminated
  /\ batch' = pairs
  /\ mode' = "none"
  /\ pc' = "failed"
  /\ tasks' = <<>>
  /\ returned' = <<>>
  /\ UNCHANGED <<pool, rulesVars, engineVars, queueVars, validation>>

\* evaluatePairs taking the serial path
EvaluatePairsSerial(pairs) ==
  /\ CanCall
  /\ ~pool.terminated
  /\ ~shouldUseWorkers(pool, Len(pairs))
  /\ batch' = pairs
  /\ mode' = "sync"
  /\ pc' = "done"
  /\ tasks' = <<>>
  /\ returned' = evaluatePairsSync(pairs, world.ctx)
  /\ UNCHANGED <<pool, rulesVars, engineVars, queueVars, validation>>

\* evaluatePairs up to its await: the adapters exist and every chunk is queued
EvaluatePairsDispatch(pairs) ==
  /\ CanCall
  /\ ~pool.terminated
  /\ shouldUseWorkers(pool, Len(pairs))
  /\ pool' = [pool EXCEPT !.adapters = ensureAdapters(pool)]
  /\ batch' = pairs
  /\ mode' = "worker"
  /\ pc' = "waiting"
  /\ tasks' = DispatchTasks(pairs, serializeContext(world.ctx), ensureAdapters(pool))
  /\ returned' = <<>>
  /\ UNCHANGED <<rulesVars, engineVars, queueVars, validation>>

\* runTask's execute: the message is posted once the adapter's queue is free
Post(i) ==
  /\ Ready(i)
  /\ \A j \in 1..(i - 1) : ~Ready(j)
  /\ tasks' = [tasks EXCEPT ![i].state = "posted"]
  /\ UNCHANGED <<pool, batch, mode, pc, returned, rulesVars, engineVars, queueVars, validation>>

\* what a worker that does not run worker.ts faithfully may answer in place
\* of the honest response: no diagnostics, a candidate lost on the way, or a
\* candidate lost and the accepted count lowered with it
MalformedFrom(honest) ==
  LET fewer == SubSeq(honest.candidates, 1, Max(0, Len(honest.candidates) - 1))
  IN { [honest EXCEPT !.diagnostics = NoDiagnostics],
       [honest EXCEPT !.candidates = fewer],
       [honest EXCEPT !.candidates = fewer, !.diagnostics.accepted = Len(fewer)] }
     \ {honest}

MalformedResponses(message) ==
  UNION { MalformedFrom(honest) : honest \in {onmessage(message)} }

\* the worker runs onmessage and handleMessage resolves the task
WorkerAnswers(i) ==
  /\ NoMicrotask
  /\ tasks[i].state = "posted"
  /\ ~pool.terminated
  /\ tasks' = [tasks EXCEPT ![i].state = "answered",
                            ![i].response = onmessage(tasks[i].message)]
  /\ UNCHANGED <<pool, batch, mode, pc, returned, rulesVars, engineVars, queueVars, validation>>

\* a 'pairsEvaluated' message with other contents arrives
WorkerAnswersMalformed(i) ==
  /\ NoMicrotask
  /\ tasks[i].state = "posted"
  /\ ~pool.terminated
  /\ \E response \in MalformedResponses(tasks[i].message) :
       tasks' = [tasks EXCEPT ![i].state = "answered", ![i].response = response]
  /\ UNCHANGED <<pool, batch, mode, pc, returned, rulesVars, engineVars, queueVars, validation>>

\* handleError rejects the task
WorkerError(i) ==
  /\ NoMicrotask
  /\ tasks[i].state = "posted"
  /\ ~pool.terminated
  /\ tasks' = [tasks EXCEPT ![i].state = "errored"]
  /\ UNCHANGED <<pool, batch, mode, pc, returned, rulesVars, engineVars, queueVars, validation>>

\* variant: the call returns with the first response that arrives
SettleOnFirstResponse ==
  /\ pc = "waiting"
  /\ \E i \in 1..Len(tasks) : tasks[i].state = "answered"
  /\ returned' = flatMapCandidates(
                   SelectSeq([i \in 1..Len(tasks) |-> tasks[i].response],
                             LAMBDA response : response.kind = "pairsEvaluated"))
  /\ pc' = "done"
  /\ UNCHANGED <<pool, batch, mode, tasks, rulesVars, engineVars, queueVars, validation>>

\* the continuation of Promise.all once every task has its result
Settle ==
  /\ pc = "waiting"
  /\ \A i \in 1..Len(tasks) : tasks[i].state = "answered"
  /\ returned' = settleResults(batch, world.ctx,
                               [i \in 1..Len(tasks) |-> tasks[i].response])
  /\ pc' = "done"
  /\ UNCHANGED <<pool, batch, mode, tasks, rulesVars, engineVars, queueVars, validation>>

\* Promise.all rejects with the first task that failed
Reject ==
  /\ pc = "waiting"
  /\ \E i \in 1..Len(tasks) : tasks[i].state = "errored"
  /\ pc' = "failed"
  /\ UNCHANGED <<pool, batch, mode, tasks, returned, rulesVars, engineVars, queueVars, validation>>

\* the caller has taken the outcome of its call
Resume ==
  /\ pc \in {"done", "failed"}
  /\ \A i \in 1..Len(tasks) : Settled(tasks[i])
  /\ batch' = <<>>
  /\ mode' = "none"
  /\ pc' = "idle"
  /\ tasks' = <<>>
  /\ returned' = <<>>
  /\ UNCHANGED <<pool, rulesVars, engineVars, queueVars, validation>>

terminate ==
  /\ pool' = IF pool.terminated THEN pool
             ELSE [pool EXCEPT !.adapters = 0, !.terminated = TRUE]
  /\ UNCHANGED <<batch, mode, pc, tasks, returned, rulesVars, engineVars, queueVars, validation>>

Next ==
  \/ \E pairs \in Batches(MaxPairs) : EvaluatePairsTerminated(pairs)
  \/ \E pairs \in Batches(MaxPairs) : EvaluatePairsSerial(pairs)
  \/ \E pairs \in Batches(MaxPairs) : EvaluatePairsDispatch(pairs)
  \/ \E i \in 1..Len(tasks) : Post(i)
  \/ \E i \in 1..Len(tasks) : WorkerAnswers(i)
  \/ \E i \in 1..Len(tasks) : WorkerAnswersMalformed(i)
  \/ \E i \in 1..Len(tasks) : WorkerError(i)
  \/ Settle
  \/ Reject
  \/ Resume
  \/ terminate

Spec == Init /\ [][Next]_vars

\* the roster of the pool family under a whitelist that admits WEILER calls
\* only: every pair of the batches is turned down at the type-whitelist gate
InitLive ==
  /\ world = [PoolWorld EXCEPT !.ctx.ruleConfig.typeWhitelist = {"WEILER"}]
  /\ evalAB = NotRun
  /\ evalBA = NotRun
  /\ \E threshold \in {-1, 0, 2}, workerFactory \in BOOLEAN, globalWorker \in BOOLEAN,
        size \in {0, 1, MaxSize}, hardwareConcurrency \in {0, MaxSize + 1} :
       pool = SwapWorkerPool(threshold, workerFactory, size, globalWorker,
                             hardwareConcurrency)
  /\ Idle
  /\ validation = NotValidated
  /\ EngineIdle

\* promise reactions (runTask's queue.then(execute), the continuation of
\* Promise.all) are run by the event loop as soon as they are ready, and a
\* worker that can answer a task posted to it eventually does
SpecLive ==
  /\ InitLive
  /\ [][Next]_vars
  /\ WF_vars(\E i \in 1..Len(tasks) : Post(i))
  /\ WF_vars(\E i \in 1..Len(tasks) : WorkerAnswers(i) \/ WorkerAnswersMalformed(i))
  /\ WF_vars(Settle)

(***************************************************************************)
(* The engine over a dataset: buildContext indexes the dataset, the caller *)
(* evaluates and scores a focal pair, one more shift is appended to the    *)
(* dataset and the index rebuilt, and the caller asks again.               *)
(***************************************************************************)
DEFAULT_REST_HOURS_MIN == 8

Dataset(residents, shifts) == [residents |-> residents, shifts |-> shifts]

\* the owners of the shifts of a dataset: the keys of shiftsByResident
Owners(shifts) == { shifts[i].residentId : i \in 1..Len(shifts) }

\* buildContext(dataset): the indexes, the observers inferred from the
\* schedule, the default rest minimum and the whitelist of the types present
buildContext(ds) ==
  Context([id \in { ds.residents[i].id : i \in 1..Len(ds.residents) } |->
             (CHOOSE r \in { ds.residents[i] : i \in 1..Len(ds.residents) } : r.id = id)],
          [id \in Owners(ds.shifts) |->
             SortByStart(SelectSeq(ds.shifts, LAMBDA s : s.residentId = id))],
          resolveShabbosObservers(
            [id \in Owners(ds.shifts) |->
               SortByStart(SelectSeq(ds.shifts, LAMBDA s : s.residentId = id))]),
          DEFAULT_REST_HOURS_MIN,
          { ds.shifts[i].type : i \in 1..Len(ds.shifts) })

\* focal shifts: a of R1 on Thursday of the second week, b of R2 a day
\* before or after it (day 11 is a Friday)
DatasetAs == { Shift("sa", "R1", 10 * 24 + 8, 10 * 24 + 20, "MOSES", FALSE, "none") }

DatasetBs ==
  { Shift("sb", "R2", d * 24 + 8, d * 24 + 20, t, FALSE, "none") :
      d \in {9, 11}, t \in {"MOSES", "WEILER"} }

\* what else the two residents hold when the dataset is first built
DatasetOthers ==
  { <<>>,
    << Shift("o1", "R1", 8 * 24 + 8, 8 * 24 + 20, "MOSES", FALSE, "none") >>,
    << Shift("o2", "R2", 12 * 24 + 8, 12 * 24 + 20, "WEILER", FALSE, "none") >>,
    << Shift("o1", "R1", 8 * 24 + 8, 8 * 24 + 20, "MOSES", FALSE, "none"),
       Shift("o2", "R2", 12 * 24 + 8, 12 * 24 + 20, "WEILER", FALSE, "none") >> }

\* the shifts that may be appended: days 5 and 19 are Saturdays, and hour 344
\* is 96 hours after the start of a, hour 345 one hour more
Appendable ==
  { Shift("sx", r, s, s + 4, t, FALSE, "none") :
      r \in {"R1", "R2"},
      s \in {5 * 24 + 8, 6 * 24 + 8, 344, 345, 16 * 24 + 8, 19 * 24 + 8, 19 * 24 + 19},
      t \in {"MOSES", "NIGHT FLOAT", "BACKUP"} }

\* the start of x is more than CALL_WINDOW_HOURS away from the start of focal
Distant(x, focal) == Abs(x.startISO - focal.startISO) > CALL_WINDOW_HOURS

ScoredAs(breakdown) == [scored |-> TRUE, breakdown |-> breakdown]

Before(evaluation, breakdown) ==
  [known |-> TRUE, evaluation |-> evaluation, breakdown |-> breakdown]

InitDataset ==
  /\ \E a \in DatasetAs, b \in DatasetBs, others \in DatasetOthers :
       /\ dataset = Dataset(<<Anyone("R1", <<>>), Anyone("R2", <<>>)>>, <<a, b>> \o others)
       /\ world = World("dataset",
                        buildContext(Dataset(<<Anyone("R1", <<>>), Anyone("R2", <<>>)>>,
                                             <<a, b>> \o others)),
                        a, b)
  /\ evalAB = NotRun
  /\ evalBA = NotRun
  /\ pressure = NotScored
  /\ earlier = Nothing
  /\ QueueIdle
  /\ pool = SwapWorkerPool(-1, FALSE, 0, FALSE, 0)
  /\ Idle
  /\ validation = NotValidated

\* calculateSwapPressure(a, b, ctx)
ScoreAB ==
  /\ pressure = NotScored
  /\ pressure' = ScoredAs(calculateSwapPressure(world.a, world.b, world.ctx))
  /\ UNCHANGED <<dataset, earlier, rulesVars, poolVars, queueVars, validation>>

\* one shift far from both focal shifts is appended to the dataset and the
\* context rebuilt from it; what the caller had computed is kept aside
AppendDistant ==
  /\ earlier = Nothing
  /\ evalAB # NotRun
  /\ pressure # NotScored
  /\ \E x \in Appendable :
       /\ Distant(x, world.a)
       /\ Distant(x, world.b)
       /\ dataset' = [dataset EXCEPT !.shifts = Append(@, x)]
       /\ world' = [world EXCEPT !.ctx = buildContext([dataset EXCEPT !.shifts = Append(@, x)])]
  /\ earlier' = Before(evalAB, pressure.breakdown)
  /\ evalAB' = NotRun
  /\ pressure' = NotScored
  /\ UNCHANGED <<evalBA, poolVars, queueVars, validation>>

NextDataset == ExplainAB \/ ScoreAB \/ AppendDistant

SpecDataset == InitDataset /\ [][NextDataset]_vars

(***************************************************************************)
(* The scoring engine on its own: a caller holds a pair and a context and  *)
(* asks calculateSwapPressure.  Day 3 is a Thursday, days 5 and 12 are     *)
(* Saturdays, day 13 is a Sunday.                                          *)
(***************************************************************************)
ScoreAs ==
  { Shift("sa", "R1", d * 24 + 8, d * 24 + 18, t, FALSE, "senior") :
      d \in {3, 5}, t \in {"MOSES", "NIGHT FLOAT", "BACKUP"} }
    \cup { Shift("sa", "R1", 3 * 24 + 8, 3 * 24 + 18, t, TRUE, "senior") :
             t \in {"MOSES", "NIGHT FLOAT"} }

ScoreBs ==
  { Shift("sb", "R2", d * 24 + 8, d * 24 + 18, t, FALSE, "senior") :
      d \in {4, 12, 13}, t \in {"MOSES", "NIGHT FLOAT", "IP CONSULT"} }
    \cup { Shift("sb", "R2", 4 * 24 + 8, 4 * 24 + 18, "MOSES", FALSE, "junior") }
    \cup { Shift("sb", r, 4 * 24 + 8, 4 * 24 + 18, "MOSES", FALSE, "senior") : r \in {"R1", "R9"} }
    \cup { Shift("sa", "R2", 4 * 24 + 8, 4 * 24 + 18, "MOSES", FALSE, "senior") }

\* what R1 holds besides a: nothing, a shift right after a, a consult on a's day
ScoreOthersA(a) ==
  { <<>>,
    << Shift("o1", "R1", a.endISO + 2, a.endISO + 12, "WEILER", FALSE, "none") >>,
    << Shift("x1", "R1", a.startISO + 1, a.startISO + 3, "IP CONSULT", FALSE, "none") >> }

\* what R2 holds besides b: nothing, a shift right after b, one four days before
ScoreOthersB(b) ==
  { <<>>,
    << Shift("o2", "R2", b.endISO + 2, b.endISO + 12, "WEILER", FALSE, "none") >>,
    << Shift("x2", "R2", b.startISO - CALL_WINDOW_HOURS, b.startISO - CALL_WINDOW_HOURS + 10,
             "MOSES", FALSE, "none"),
       Shift("o2", "R2", b.endISO + 2, b.endISO + 12, "WEILER", FALSE, "none") >> }

\* the rotations a resident may hold: none, or a week starting on day 0 or 7
ScoreRotations ==
  { <<>>, << Rotation(0, "GI", {}) >>, << Rotation(0, "Body", {}), Rotation(7, "Mammo", {}) >> }

\* what R1 and R2 are eligible for
ScoreEligible ==
  { <<AllTypes, AllTypes>>, <<{"MOSES", "BACKUP"}, AllTypes>>, <<AllTypes, {"MOSES", "BACKUP"}>> }

ScoreWorld(eligible, rotA, rotB, othersA, othersB, m, a, b) ==
  World("score",
        Context(Map2("R1", Resident("R1", eligible[1], rotA, <<>>),
                     "R2", Resident("R2", eligible[2], rotB, <<>>)),
                Map2("R1", SortByStart(Append(othersA, a)),
                     "R2", SortByStart(Append(othersB, b))),
                {}, m, {}),
        a, b)

InitScore ==
  /\ \/ \E eligible \in ScoreEligible, rotA \in ScoreRotations,
            rotB \in {<<>>, << Rotation(7, "GI", {}) >>}, m \in {0, RestMin},
            a \in ScoreAs, b \in ScoreBs :
          \E othersA \in ScoreOthersA(a), othersB \in ScoreOthersB(b) :
            world = ScoreWorld(eligible, rotA, rotB, othersA, othersB, m, a, b)
     \/ \E a \in ScoreAs, b \in ScoreBs :
          \/ world = World("score", Undefined, a, b)
          \/ world = [ScoreWorld(<<AllTypes, AllTypes>>, <<>>, <<>>, <<>>, <<>>, 0, a, b)
                        EXCEPT !.a = Undefined]
          \/ world = [ScoreWorld(<<AllTypes, AllTypes>>, <<>>, <<>>, <<>>, <<>>, 0, a, b)
                        EXCEPT !.b = Undefined]
  /\ evalAB = NotRun
  /\ evalBA = NotRun
  /\ pool = SwapWorkerPool(-1, FALSE, 0, FALSE, 0)
  /\ Idle
  /\ validation = NotValidated
  /\ EngineIdle

NextScore == ScoreAB

SpecScore == InitScore /\ [][NextScore]_vars

(***************************************************************************)
(* The pools of a page as a state machine: one pool built with options and *)
(* the module's singleton, several evaluatePairs calls in flight, each     *)
(* worker with the messages it was sent and the listeners on it.           *)
(***************************************************************************)
\* how many evaluatePairs calls are made
MaxCalls == 2

\* new Worker(...): nothing received, nobody listening, not terminated
NewWorker == [mailbox |-> <<>>, listeners |-> {}, terminations |-> 0]

\* worker.addEventListener('message', ...) and ('error', ...) of job i
addEventListener(worker, i) == [worker EXCEPT !.listeners = @ \cup {i}]

\* worker.postMessage(message): a terminated worker receives nothing
postMessage(worker, message) ==
  IF worker.terminations > 0 THEN worker
  ELSE [worker EXCEPT !.mailbox = Append(@, message)]

\* WorkerAdapter.terminate: worker.terminate()
terminateAdapter(worker) == [worker EXCEPT !.terminations = @ + 1, !.mailbox = <<>>]

\* variant: the adapters are terminated but kept
terminatedKeepingAdapters(p) == IF p.terminated THEN p ELSE [p EXCEPT !.terminated = TRUE]

\* SwapWorkerPool.terminate: the pool afterwards
terminated(p) ==
  IF p.terminated THEN p ELSE [p EXCEPT !.adapters = 0, !.terminated = TRUE]

\* SwapWorkerPool.terminate: the workers of the pool afterwards
terminatedWorkers(p, its) ==
  IF p.terminated THEN its
  ELSE [k \in 1..Len(its) |-> IF k <= p.adapters THEN terminateAdapter(its[k]) ELSE its[k]]

\* a task handed to runTask by call c on pool p
Job(task, p, c) ==
  [message |-> task.message, adapter |-> task.adapter, state |-> task.state,
   response |-> task.response, pool |-> p, call |-> c]

\* an evaluatePairs call: via the pool object or via the module's function
Caller(p, pairs, via, at, result, submitted) ==
  [pool |-> p, batch |-> pairs, via |-> via, pc |-> at, returned |-> result,
   jobs |-> submitted]

\* what pool.evaluatePairs is called with
QueueBatches ==
  { <<ShiftPair(p1, q1)>>,
    <<ShiftPair(p1, q1), ShiftPair(p2, q1), ShiftPair(q1, r1)>> }

\* what the module's evaluatePairs is called with
ModuleBatches == { <<ShiftPair(p2, q1), ShiftPair(p1, r1)>> }

\* the page: without Worker, or with Worker and three cores
Runtimes ==
  { [globalWorker |-> FALSE, hardwareConcurrency |-> 0],
    [globalWorker |-> TRUE, hardwareConcurrency |-> 3] }

\* the singleton after an earlier batch of CANDIDATE_WORKER_THRESHOLD pairs or
\* more has been evaluated on it: its workers exist where it can use them
UsedSingleton(page) ==
  Only({ [fresh EXCEPT !.adapters = IF shouldUseWorkers(fresh, CANDIDATE_WORKER_THRESHOLD)
                                    THEN ensureAdapters(fresh) ELSE 0] :
         fresh \in {SwapWorkerPool(-1, FALSE, 0, page.globalWorker,
                                   page.hardwareConcurrency)} })

InitQueue ==
  /\ world = PoolWorld
  /\ evalAB = NotRun
  /\ evalBA = NotRun
  /\ pool = SwapWorkerPool(-1, FALSE, 0, FALSE, 0)
  /\ Idle
  /\ validation = NotValidated
  /\ dataset = NoDataset
  /\ pressure = NotScored
  /\ earlier = Nothing
  /\ runtime \in Runtimes
  /\ \E workerFactory \in BOOLEAN, size \in {1, 2} :
       \/ /\ pools = << SwapWorkerPool(2, workerFactory, size, runtime.globalWorker,
                                      runtime.hardwareConcurrency) >>
          /\ singletonPool = null
          /\ workers = << <<>> >>
       \/ /\ pools = << SwapWorkerPool(2, workerFactory, size, runtime.globalWorker,
                                      runtime.hardwareConcurrency),
                        UsedSingleton(runtime) >>
          /\ singletonPool = 2
          /\ workers = << <<>>, [k \in 1..UsedSingleton(runtime).adapters |-> NewWorker] >>
  /\ jobs = <<>>
  /\ callers = <<>>

\* pool.evaluatePairs(pairs, ctx) up to its first await, on pool p of `all`
\* whose workers are `its`
EvaluateOn(all, its, p, pairs, via) ==
  IF all[p].terminated
  THEN /\ pools' = all
       /\ workers' = its
       /\ jobs' = jobs
       /\ callers' = Append(callers, Caller(p, pairs, via, "failed", <<>>, <<>>))
  ELSE IF ~shouldUseWorkers(all[p], Len(pairs))
  THEN /\ pools' = all
       /\ workers' = its
       /\ jobs' = jobs
       /\ callers' = Append(callers, Caller(p, pairs, via, "done",
                                            evaluatePairsSync(pairs, world.ctx), <<>>))
  ELSE \E submitted \in {DispatchTasks(pairs, serializeContext(world.ctx),
                                       ensureAdapters(all[p]))} :
         /\ pools' = [all EXCEPT ![p].adapters = ensureAdapters(all[p])]
         /\ workers' = [its EXCEPT ![p] = IF all[p].adapters > 0 THEN @
                                          ELSE [k \in 1..ensureAdapters(all[p]) |-> NewWorker]]
         /\ jobs' = jobs \o [k \in 1..Len(submitted) |->
                               Job(submitted[k], p, Len(callers) + 1)]
         /\ callers' = Append(callers,
                              Caller(p, pairs, via, "waiting", <<>>,
                                     [k \in 1..Len(submitted) |-> Len(jobs) + k]))

\* pool.evaluatePairs(pairs, ctx) on the pool built with options
PoolEvaluatePairs(pairs) ==
  /\ Len(callers) < MaxCalls
  /\ EvaluateOn(pools, workers, 1, pairs, "pool")
  /\ UNCHANGED <<runtime, singletonPool, rulesVars, poolVars, dataset, pressure, earlier, validation>>

\* evaluatePairs(pairs, ctx) of the module: getSingletonPool().evaluatePairs
evaluatePairs(pairs) ==
  /\ Len(callers) < MaxCalls
  /\ IF singletonPool = null
     THEN /\ singletonPool' = Len(pools) + 1
          /\ EvaluateOn(Append(pools, SwapWorkerPool(-1, FALSE, 0, runtime.globalWorker,
                                                     runtime.hardwareConcurrency)),
                        Append(workers, <<>>), Len(pools) + 1, pairs, "module")
     ELSE /\ singletonPool' = singletonPool
          /\ EvaluateOn(pools, workers, singletonPool, pairs, "module")
  /\ UNCHANGED <<runtime, rulesVars, poolVars, dataset, pressure, earlier, validation>>

\* the jobs submitted before job i to the same adapter
Predecessors(i) ==
  { j \in 1..(i - 1) : jobs[j].pool = jobs[i].pool /\ jobs[j].adapter = jobs[i].adapter }

MaxOf(set) == CHOOSE x \in set : \A y \in set : y <= x

\* variant: execute does not wait for the queue
RunnableAtOnce(i) == jobs[i].state = "queued"

\* this.queue.then(execute) of job i can run: the result of the job that was
\* last in the adapter's queue when job i was submitted has settled
Runnable(i) ==
  /\ jobs[i].state = "queued"
  /\ Predecessors(i) # {} => Settled(jobs[MaxOf(Predecessors(i))])

\* promise reactions run before the next message or error event is handled
NoReaction == \A i \in 1..Len(jobs) : ~Runnable(i)

\* runTask's execute: the listeners are added and the message is posted
Execute(i) ==
  /\ Runnable(i)
  /\ \A j \in 1..(i - 1) : ~Runnable(j)
  /\ jobs' = [jobs EXCEPT ![i].state = "posted"]
  /\ workers' = [workers EXCEPT ![jobs[i].pool][jobs[i].adapter + 1] =
                   postMessage(addEventListener(@, i), jobs[i].message)]
  /\ UNCHANGED <<runtime, pools, singletonPool, callers, rulesVars, poolVars,
                 dataset, pressure, earlier, validation>>

\* the jobs after a 'message' or an 'error' event on a worker: every listener
\* on it settles its job and removes itself
Dispatched(listeners, state, response) ==
  [i \in 1..Len(jobs) |->
     IF i \in listeners THEN [jobs[i] EXCEPT !.state = state, !.response = response]
     ELSE jobs[i]]

\* worker k of pool p runs onmessage on the oldest message it holds and the
\* 'message' event reaches handleMessage
WorkerResponds(p, k) ==
  /\ NoReaction
  /\ workers[p][k].mailbox # <<>>
  /\ jobs' = Dispatched(workers[p][k].listeners, "answered",
                        onmessage(Head(workers[p][k].mailbox)))
  /\ workers' = [workers EXCEPT ![p][k].mailbox = Tail(@), ![p][k].listeners = {}]
  /\ UNCHANGED <<runtime, pools, singletonPool, callers, rulesVars, poolVars,
                 dataset, pressure, earlier, validation>>

\* worker k of pool p fails on the oldest message it holds and the 'error'
\* event reaches handleError
WorkerFails(p, k) ==
  /\ NoReaction
  /\ workers[p][k].mailbox # <<>>
  /\ jobs' = Dispatched(workers[p][k].listeners, "errored", [kind |-> "none"])
  /\ workers' = [workers EXCEPT ![p][k].mailbox = Tail(@), ![p][k].listeners = {}]
  /\ UNCHANGED <<runtime, pools, singletonPool, callers, rulesVars, poolVars,
                 dataset, pressure, earlier, validation>>

\* the continuation of call c's Promise.all once every job has its result
SettleCall(c) ==
  /\ callers[c].pc = "waiting"
  /\ \A k \in 1..Len(callers[c].jobs) : jobs[callers[c].jobs[k]].state = "answered"
  /\ callers' = [callers EXCEPT
                   ![c].pc = "done",
                   ![c].returned =
                     settleResults(callers[c].batch, world.ctx,
                                   [k \in 1..Len(callers[c].jobs) |->
                                      jobs[callers[c].jobs[k]].response])]
  /\ UNCHANGED <<runtime, pools, singletonPool, workers, jobs, rulesVars, poolVars,
                 dataset, pressure, earlier, validation>>

\* call c's Promise.all rejects with the first job that failed
RejectCall(c) ==
  /\ callers[c].pc = "waiting"
  /\ \E k \in 1..Len(callers[c].jobs) : jobs[callers[c].jobs[k]].state = "errored"
  /\ callers' = [callers EXCEPT ![c].pc = "failed"]
  /\ UNCHANGED <<runtime, pools, singletonPool, workers, jobs, rulesVars, poolVars,
                 dataset, pressure, earlier, validation>>

\* pool.terminate() on the pool built with options
PoolTerminate ==
  /\ pools' = [pools EXCEPT ![1] = terminated(@)]
  /\ workers' = [workers EXCEPT ![1] = terminatedWorkers(pools[1], @)]
  /\ UNCHANGED <<runtime, singletonPool, jobs, callers, rulesVars, poolVars,
                 dataset, pressure, earlier, validation>>

\* terminatePool() of the module
terminatePool ==
  /\ IF singletonPool # null
     THEN /\ pools' = [pools EXCEPT ![singletonPool] = terminated(@)]
          /\ workers' = [workers EXCEPT ![singletonPool] =
                           terminatedWorkers(pools[singletonPool], @)]
          /\ singletonPool' = null
     ELSE UNCHANGED <<pools, workers, singletonPool>>
  /\ UNCHANGED <<runtime, jobs, callers, rulesVars, poolVars, dataset, pressure, earlier, validation>>

NextQueue ==
  \/ \E pairs \in QueueBatches : PoolEvaluatePairs(pairs)
  \/ \E pairs \in ModuleBatches : evaluatePairs(pairs)
  \/ \E i \in 1..Len(jobs) : Execute(i)
  \/ \E p \in 1..Len(workers) : \E k \in 1..Len(workers[p]) : WorkerResponds(p, k)
  \/ \E p \in 1..Len(workers) : \E k \in 1..Len(workers[p]) : WorkerFails(p, k)
  \/ \E c \in 1..Len(callers) : SettleCall(c)
  \/ \E c \in 1..Len(callers) : RejectCall(c)
  \/ PoolTerminate
  \/ terminatePool

SpecQueue == InitQueue /\ [][NextQueue]_vars

(***************************************************************************)
(* Family "life": one pool built with the options of world.options on a    *)
(* page with or without Worker and with zero to eight cores, and the       *)
(* module's singleton; no pair passes the whitelist.                       *)
(***************************************************************************)
\* options.size: absent (0), not positive, or explicit
LifeSizes == {-1, 0, 2, 3}

LifeRuntimes ==
  { [globalWorker |-> FALSE, hardwareConcurrency |-> 0],
    [globalWorker |-> TRUE, hardwareConcurrency |-> 0],
    [globalWorker |-> TRUE, hardwareConcurrency |-> 1],
    [globalWorker |-> TRUE, hardwareConcurrency |-> 3],
    [globalWorker |-> TRUE, hardwareConcurrency |-> 2 * MAX_POOL_SIZE] }

LifeWorld(size, workerFactory) ==
  [family |-> "life",
   ctx |-> [PoolWorld.ctx EXCEPT !.ruleConfig.typeWhitelist = {"WEILER"}],
   a |-> PoolWorld.a, b |-> PoolWorld.b,
   options |-> [size |-> size, threshold |-> 2, workerFactory |-> workerFactory]]

InitLife ==
  /\ \E size \in LifeSizes, workerFactory \in BOOLEAN : world = LifeWorld(size, workerFactory)
  /\ evalAB = NotRun
  /\ evalBA = NotRun
  /\ pool = SwapWorkerPool(-1, FALSE, 0, FALSE, 0)
  /\ Idle
  /\ validation = NotValidated
  /\ dataset = NoDataset
  /\ pressure = NotScored
  /\ earlier = Nothing
  /\ runtime \in LifeRuntimes
  /\ pools = << SwapWorkerPool(world.options.threshold, world.options.workerFactory,
                               world.options.size, runtime.globalWorker,
                               runtime.hardwareConcurrency) >>
  /\ singletonPool = null
  /\ workers = << <<>> >>
  /\ jobs = <<>>
  /\ callers = <<>>

\* what pool.evaluatePairs is called with: below and at the threshold
LifeBatches == { <<ShiftPair(p1, q1)>>, <<ShiftPair(p1, q1), ShiftPair(p2, q1)>> }

NextLife ==
  \/ \E pairs \in LifeBatches : PoolEvaluatePairs(pairs)
  \/ \E pairs \in ModuleBatches : evaluatePairs(pairs)
  \/ \E i \in 1..Len(jobs) : Execute(i)
  \/ \E p \in 1..Len(workers) : \E k \in 1..Len(workers[p]) : WorkerResponds(p, k)
  \/ \E p \in 1..Len(workers) : \E k \in 1..Len(workers[p]) : WorkerFails(p, k)
  \/ \E c \in 1..Len(callers) : SettleCall(c)
  \/ \E c \in 1..Len(callers) : RejectCall(c)
  \/ PoolTerminate
  \/ terminatePool

SpecLife == InitLife /\ [][NextLife]_vars

(***************************************************************************)
(* One batch on one pool: the summaries of the serial path, of the chunks  *)
(* and of the merge.                                                       *)
(***************************************************************************)
\* the pairs of the summarised batches: one accepted, two rejected for a
\* Shabbos restriction, one for a rule violation
SummaryPairs ==
  { ShiftPair(p1, q1), ShiftPair(p2, q1), ShiftPair(p2, q2), ShiftPair(q1, r1) }

\* the batches of up to n distinct pairs in any order
RECURSIVE SummaryBatches(_)
SummaryBatches(n) ==
  IF n = 0 THEN {<<>>}
  ELSE LET shorter == SummaryBatches(n - 1)
       IN shorter \cup
          { Append(bp[1], bp[2]) :
              bp \in { x \in shorter \X SummaryPairs :
                         /\ Len(x[1]) = n - 1
                         /\ \A i \in 1..Len(x[1]) : x[1][i] # x[2] } }

\* the first and only call on the pool
FirstCall(pairs) == callers = <<>> /\ PoolEvaluatePairs(pairs)

NextSummary ==
  \/ \E pairs \in SummaryBatches(MaxPairs) : FirstCall(pairs)
  \/ \E i \in 1..Len(jobs) : Execute(i)
  \/ \E p \in 1..Len(workers) : \E k \in 1..Len(workers[p]) : WorkerResponds(p, k)
  \/ \E c \in 1..Len(callers) : SettleCall(c)

SpecSummary == InitQueue /\ [][NextSummary]_vars

(***************************************************************************)
(* What the calls do to the context they are given.  An array is an        *)
(* object: `shared` tells whether it is the very array the context keeps   *)
(* for `owner` in shiftsByResident, and push and sort act on the object    *)
(* they are called on.                                                     *)
(***************************************************************************)
\* ctx.shiftsByResident.get(id) ?? []
getShifts(ctx, id) ==
  [shared |-> id \in DOMAIN ctx.shiftsByResident, owner |-> id, items |-> ShiftsOf(ctx, id)]

\* array.filter((shift) => shift.id !== id): a new array
filtered(array, id) ==
  [shared |-> FALSE, owner |-> array.owner, items |-> WithoutId(array.items, id)]

\* the context after array.push(shift)
pushed(ctx, array, shift) ==
  IF array.shared
  THEN [ctx EXCEPT !.shiftsByResident[array.owner] = Append(@, shift)]
  ELSE ctx

\* the context after [...array].sort(byStart): the copy is sorted
sortedCopy(ctx, array) == ctx

\* variant: the timeline is the context's own array
timelineShared(ctx, shift) == getShifts(ctx, shift.residentId)

\* (ctx.shiftsByResident.get(shift.residentId) ?? []).filter(s => s.id !== shift.id)
timelineWithout(ctx, shift) ==
  filtered(getShifts(ctx, shift.residentId), shift.id)

\* evaluateSwap reaches timelineA.push / timelineB.push
ReachesTimelines(evaluation) ==
  evaluation.feasible \/ evaluation.reason.kind \in {"rule-violation", "unexpected-error"}

\* the context after evaluateSwap(a, b, ctx)
ctxAfterEvaluateSwap(a, b, ctx) ==
  IF ~ReachesTimelines(evaluateSwap(a, b, ctx)) THEN ctx
  ELSE LET timelineA == timelineWithout(ctx, a)
           timelineB == timelineWithout(ctx, b)
           afterA == pushed(ctx, timelineA, [b EXCEPT !.residentId = a.residentId])
           afterB == pushed(afterA, timelineB, [a EXCEPT !.residentId = b.residentId])
       IN sortedCopy(sortedCopy(afterB, timelineA), timelineB)

\* the context after calculateSwapPressure(a, b, ctx): the other shifts of
\* both residents are filtered copies, and only read
ctxAfterPressure(a, b, ctx) == ctx

\* the context after the loop of evaluatePairsSync (or of a worker that was
\* handed the context's own arrays) has evaluated pairs 1..i
RECURSIVE ctxAfterPairs(_, _, _)
ctxAfterPairs(pairs, ctx, i) ==
  IF i = 0 THEN ctx
  ELSE LET before == ctxAfterPairs(pairs, ctx, i - 1)
           evaluation == explainSwap(pairs[i].a, pairs[i].b, before)
           after == ctxAfterEvaluateSwap(pairs[i].a, pairs[i].b, before)
       IN IF evaluation.feasible THEN ctxAfterPressure(pairs[i].a, pairs[i].b, after)
          ELSE after

\* the pairs the callers of the frame family ask about
FramePairs ==
  { ShiftPair(p1, q1), ShiftPair(q1, p1), ShiftPair(p2, q1), ShiftPair(p1, r1),
    ShiftPair(q1, r1), ShiftPair(p1, Undefined) }

FrameBatches == QueueBatches \cup ModuleBatches \cup {<<>>}

InitFrame ==
  /\ \E m \in {0, RestMin}, observers \in {{}, {"R2"}} :
       world = [PoolWorld EXCEPT !.ctx.ruleConfig.restHoursMin = m,
                                 !.ctx.shabbosObservers = observers]
  /\ evalAB = NotRun
  /\ evalBA = NotRun
  /\ pool = SwapWorkerPool(0, TRUE, MaxSize, FALSE, 0)
  /\ Idle
  /\ validation = NotValidated
  /\ EngineIdle

\* explainSwap(pair.a, pair.b, ctx)
FrameExplainSwap(pair) ==
  /\ evalAB' = explainSwap(pair.a, pair.b, world.ctx)
  /\ world' = [world EXCEPT !.ctx = ctxAfterEvaluateSwap(pair.a, pair.b, world.ctx)]
  /\ UNCHANGED <<evalBA, poolVars, engineVars, queueVars, validation>>

\* calculateSwapPressure(pair.a, pair.b, ctx)
FramePressure(pair) ==
  /\ pair.b # Undefined
  /\ pressure' = ScoredAs(calculateSwapPressure(pair.a, pair.b, world.ctx))
  /\ world' = [world EXCEPT !.ctx = ctxAfterPressure(pair.a, pair.b, world.ctx)]
  /\ UNCHANGED <<evalAB, evalBA, poolVars, dataset, earlier, queueVars, validation>>

\* pool.evaluatePairsSync(pairs, ctx)
FrameEvaluatePairsSync(pairs) ==
  /\ batch' = pairs
  /\ mode' = "sync"
  /\ returned' = evaluatePairsSync(pairs, world.ctx)
  /\ world' = [world EXCEPT !.ctx = ctxAfterPairs(pairs, world.ctx, Len(pairs))]
  /\ UNCHANGED <<evalAB, evalBA, pool, pc, tasks, engineVars, queueVars, validation>>

\* await pool.evaluatePairs(pairs, ctx) on workers made by a factory that
\* hands them the message itself: serializeContext and hydrateContext build
\* new maps over the context's own arrays
FrameEvaluatePairs(pairs) ==
  /\ batch' = pairs
  /\ mode' = "worker"
  /\ pool' = [pool EXCEPT !.adapters = ensureAdapters(pool)]
  /\ returned' =
       settleResults(pairs, world.ctx,
         Only({ [k \in 1..Len(dispatched) |-> onmessage(dispatched[k].message)] :
                dispatched \in {DispatchTasks(pairs, serializeContext(world.ctx),
                                              ensureAdapters(pool))} }))
  /\ world' = [world EXCEPT !.ctx =
                 ctxAfterPairs(pairs, hydrateContext(serializeContext(world.ctx)), Len(pairs))]
  /\ UNCHANGED <<evalAB, evalBA, pc, tasks, engineVars, queueVars, validation>>

NextFrame ==
  \/ \E pair \in FramePairs : FrameExplainSwap(pair)
  \/ \E pair \in FramePairs : FramePressure(pair)
  \/ \E pairs \in FrameBatches : FrameEvaluatePairsSync(pairs)
  \/ \E pairs \in FrameBatches : FrameEvaluatePairs(pairs)

SpecFrame == InitFrame /\ [][NextFrame]_vars

(***************************************************************************)
(* Properties of the worker pool.                                          *)
(***************************************************************************)
\* a call that took the parallel path has delivered its list
DeliveredByWorkers == pc = "done" /\ mode = "worker"

\* every worker ran worker.ts on its chunk
WorkersHonest ==
  \A i \in 1..Len(tasks) :
    tasks[i].state = "answered" /\ tasks[i].response = onmessage(tasks[i].message)

\* a list as a multiset
BagOf(list) ==
  [x \in { list[i] : i \in 1..Len(list) } |->
     Cardinality({ i \in 1..Len(list) : list[i] = x })]

\* the accepted pairs with their scores
Scored(candidates) ==
  [i \in 1..Len(candidates) |->
     [a |-> candidates[i].a, b |-> candidates[i].b, score |-> candidates[i].score]]

SerialResult == evaluatePairsSync(batch, world.ctx)

\* the candidates of the first n chunks as received, in dispatch order
RECURSIVE ReceivedUpTo(_)
ReceivedUpTo(n) ==
  IF n = 0 THEN <<>> ELSE ReceivedUpTo(n - 1) \o tasks[n].response.candidates

ReceivedCandidates == ReceivedUpTo(Len(tasks))

\* diagnostics.accepted summed over the first n chunks that carry diagnostics
RECURSIVE AcceptedUpTo(_)
AcceptedUpTo(n) ==
  IF n = 0 THEN 0
  ELSE AcceptedUpTo(n - 1)
       + (IF tasks[n].response.diagnostics.defined
          THEN tasks[n].response.diagnostics.accepted ELSE 0)

NoChunkDiagnostics ==
  \A i \in 1..Len(tasks) : ~tasks[i].response.diagnostics.defined

GuardFails == NoChunkDiagnostics \/ AcceptedUpTo(Len(tasks)) # Len(ReceivedCandidates)

\* C1: when every worker evaluates its chunk with the real engines and
\* answers, the parallel path returns the accepted pairs and scores of
\* evaluatePairsSync on the same batch, as multisets.
C1_SerialParallelEquivalence ==
  (DeliveredByWorkers /\ WorkersHonest)
    => BagOf(Scored(returned)) = BagOf(Scored(SerialResult))

\* C1: three pairs went out in two chunks, two of them were accepted
C1_Witness ==
  /\ DeliveredByWorkers
  /\ WorkersHonest
  /\ Len(batch) = 3
  /\ Len(tasks) = 2
  /\ Len(returned) = 2

\* C2: for a non-empty batch whose chunks have all answered, if no chunk
\* carried diagnostics or the summed accepted count differs from the number
\* of candidates received, the list returned is evaluatePairsSync's.
C2_ConsistencyFallback ==
  (DeliveredByWorkers /\ Len(batch) > 0 /\ GuardFails) => returned = SerialResult

\* C2: the guard failed on worker output that differed from the serial result
C2_Witness ==
  /\ DeliveredByWorkers
  /\ Len(batch) > 0
  /\ GuardFails
  /\ ReceivedCandidates # SerialResult
  /\ returned = SerialResult

\* C3 as stated: for a non-empty batch on the parallel path the list
\* returned holds exactly the candidates of evaluatePairsSync, whatever the
\* workers answered.
C3_AlwaysSerialResult ==
  (DeliveredByWorkers /\ Len(batch) > 0) => BagOf(returned) = BagOf(SerialResult)

\* C3: for a non-empty batch on the parallel path the list returned holds
\* exactly the candidates of evaluatePairsSync, unless some chunk carried
\* diagnostics and the summed accepted count equals the number of candidates
\* received: then it is the received candidates in dispatch order.
C3_GuardedResult ==
  (DeliveredByWorkers /\ Len(batch) > 0)
    => \/ BagOf(returned) = BagOf(SerialResult)
       \/ ~GuardFails /\ returned = ReceivedCandidates

\* C3: a worker lost a candidate and lowered its count; the caller got the
\* shortened list
C3_Witness ==
  /\ DeliveredByWorkers
  /\ Len(batch) > 0
  /\ ~WorkersHonest
  /\ ~GuardFails
  /\ BagOf(returned) # BagOf(SerialResult)

(***************************************************************************)
(* Properties of the rule engine.                                          *)
(***************************************************************************)
RanAB == evalAB # NotRun
RanBA == evalBA # NotRun

\* what the owner of `given` would hold in place of it
Received(given, received) == [received EXCEPT !.residentId = given.residentId]

\* C4: feasibility is symmetric: explainSwap(A, B, ctx) and explainSwap(B, A, ctx)
\* agree on feasible, whatever reasons they report.
C4_Symmetric == (RanAB /\ RanBA) => (evalAB.feasible = evalBA.feasible)

\* C4 witness: both orders were asked and both reject, for different reasons.
C4_Witness ==
  /\ RanAB /\ RanBA
  /\ ~evalAB.feasible /\ ~evalBA.feasible
  /\ evalAB.reason.kind = "shabbos-restriction"
  /\ evalBA.reason.kind = "shabbos-restriction"
  /\ evalAB.reason.residentId # evalBA.reason.residentId

(***************************************************************************)
(* The single checks of the gate, each as a predicate of its own.  `given` *)
(* is the shift a person hands over and `received` the one they take.      *)
(***************************************************************************)
OwnerOf(ctx, given) == ctx.residentsById[given.residentId]

SameOwner(a, b) == a.residentId = b.residentId

OwnerUnknown(a, b, ctx) == ~HasResident(ctx, a.residentId) \/ ~HasResident(ctx, b.residentId)

TierMismatch(a, b) ==
  /\ getMosesTier(a) \in {"junior", "senior"}
  /\ getMosesTier(b) \in {"junior", "senior"}
  /\ getMosesTier(a) # getMosesTier(b)

WeekendMismatch(a, b) == isWeekendOrHoliday(a) # isWeekendOrHoliday(b)

OutsideWhitelist(a, b, ctx) ==
  /\ ctx.ruleConfig.typeWhitelist # {}
  /\ ~({a.type, b.type} \subseteq ctx.ruleConfig.typeWhitelist)

Ineligible(ctx, given, received) ==
  received.type \notin OwnerOf(ctx, given).eligibleShiftTypes

ShabbosFails(ctx, given, received) ==
  evaluateShabbosRestriction(OwnerOf(ctx, given), Received(given, received),
                             ctx.shabbosObservers) # NoReason

VacationFails(ctx, given, received) ==
  shiftVacationConflicts(Received(given, received), OwnerOf(ctx, given)) # {}

RotationFails(ctx, given, received) ==
  shiftRotationConflicts(Received(given, received), OwnerOf(ctx, given)) # NoConflict

TimelineFails(ctx, given, received) ==
  validateResidentTimeline(PostSwapTimeline(ctx, given, received), ctx.ruleConfig,
                           OwnerOf(ctx, given), FocusOn({received.id}),
                           BACKUP_SOFT_TYPES).error # "none"

\* the failure of the checks of prepareSwap, "none" if none
PrepareFailure(a, b, ctx) ==
  IF SameOwner(a, b) THEN "same-resident"
  ELSE IF OwnerUnknown(a, b, ctx) THEN "resident-missing"
  ELSE IF TierMismatch(a, b) THEN "moses-tier-mismatch"
  ELSE IF WeekendMismatch(a, b) THEN "weekend-mismatch"
  ELSE IF OutsideWhitelist(a, b, ctx) THEN "type-whitelist"
  ELSE IF Ineligible(ctx, a, b) THEN "eligibility-a"
  ELSE IF Ineligible(ctx, b, a) THEN "eligibility-b"
  ELSE "none"

\* the failure of the checks up to the Shabbos restriction, "none" if none
EarlyFailure(a, b, ctx) ==
  IF PrepareFailure(a, b, ctx) # "none" THEN PrepareFailure(a, b, ctx)
  ELSE IF ShabbosFails(ctx, a, b) \/ ShabbosFails(ctx, b, a) THEN "shabbos-restriction"
  ELSE "none"

\* the order of the claim: vacation for either person, then rotation for either
FirstFailureVacationFirst(a, b, ctx) ==
  IF EarlyFailure(a, b, ctx) # "none" THEN EarlyFailure(a, b, ctx)
  ELSE IF VacationFails(ctx, a, b) \/ VacationFails(ctx, b, a) THEN "vacation-conflict"
  ELSE IF RotationFails(ctx, a, b) \/ RotationFails(ctx, b, a) THEN "rotation-block"
  ELSE IF TimelineFails(ctx, a, b) \/ TimelineFails(ctx, b, a) THEN "rule-violation"
  ELSE "none"

\* person by person: vacation and rotation of the first, then of the second
FirstFailurePersonByPerson(a, b, ctx) ==
  IF EarlyFailure(a, b, ctx) # "none" THEN EarlyFailure(a, b, ctx)
  ELSE IF VacationFails(ctx, a, b) THEN "vacation-conflict"
  ELSE IF RotationFails(ctx, a, b) THEN "rotation-block"
  ELSE IF VacationFails(ctx, b, a) THEN "vacation-conflict"
  ELSE IF RotationFails(ctx, b, a) THEN "rotation-block"
  ELSE IF TimelineFails(ctx, a, b) \/ TimelineFails(ctx, b, a) THEN "rule-violation"
  ELSE "none"

\* C5 as claimed: the reported reason is the first failing check in the order
\* same-resident, resident-missing, tier, weekend, whitelist, eligibility-a/b,
\* Shabbos, vacation conflict (either person), rotation block (either person),
\* timeline; so vacation for one person beats rotation for the other.
C5_VacationBeforeRotation ==
  /\ (RanAB /\ world.a.id # world.b.id)
       => evalAB.reason.kind = FirstFailureVacationFirst(world.a, world.b, world.ctx)
  /\ (RanBA /\ world.a.id # world.b.id)
       => evalBA.reason.kind = FirstFailureVacationFirst(world.b, world.a, world.ctx)

\* C5 amended: the same order up to the Shabbos restriction, then vacation and
\* rotation of the first person, then vacation and rotation of the second, then
\* the timelines; the first failing check gives the reason, and a pair is
\* accepted exactly when no check fails.
C5_GatingOrder ==
  /\ (RanAB /\ world.a.id # world.b.id)
       => /\ evalAB.reason.kind = FirstFailurePersonByPerson(world.a, world.b, world.ctx)
          /\ evalAB.feasible <=> evalAB.reason.kind = "none"
  /\ (RanBA /\ world.a.id # world.b.id)
       => /\ evalBA.reason.kind = FirstFailurePersonByPerson(world.b, world.a, world.ctx)
          /\ evalBA.feasible <=> evalBA.reason.kind = "none"

\* C5 witness: the first person fails only the rotation block, the second the
\* vacation check, and the pair is rejected as rotation-block.
C5_Witness ==
  /\ RanAB
  /\ evalAB.reason.kind = "rotation-block"
  /\ ~VacationFails(world.ctx, world.a, world.b)
  /\ RotationFails(world.ctx, world.a, world.b)
  /\ VacationFails(world.ctx, world.b, world.a)

(***************************************************************************)
(* Post-swap timelines and the pairs of shifts in them.                    *)
(***************************************************************************)
\* every check before the timeline re-validation passes
GatesPass(a, b, ctx) ==
  /\ a.id # b.id
  /\ EarlyFailure(a, b, ctx) = "none"
  /\ ~VacationFails(ctx, a, b) /\ ~RotationFails(ctx, a, b)
  /\ ~VacationFails(ctx, b, a) /\ ~RotationFails(ctx, b, a)

SortedPostSwap(ctx, given, received) == SortByStart(PostSwapTimeline(ctx, given, received))

\* <<earlier, later>> for every pair standing next to each other in start order
AdjacentPairs(ctx, given, received) ==
  LET tl == SortedPostSwap(ctx, given, received)
  IN { <<tl[i], tl[i + 1]>> : i \in 1..(Len(tl) - 1) }

\* the adjacent pairs that hold the received shift
ReceivedNeighbours(ctx, given, received) ==
  { p \in AdjacentPairs(ctx, given, received) :
      p[1].id = received.id \/ p[2].id = received.id }

\* the received shift with every other shift of the timeline, adjacent or not
ReceivedWithAny(ctx, given, received) ==
  LET tl == SortedPostSwap(ctx, given, received)
  IN { <<tl[q[1]], tl[q[2]]>> :
         q \in { r \in (1..Len(tl)) \X (1..Len(tl)) :
                   /\ r[1] < r[2]
                   /\ tl[r[1]].id = received.id \/ tl[r[2]].id = received.id } }

IsBackup(shift) == shift.type = "BACKUP"

InvolvesBackup(p) == IsBackup(p[1]) \/ IsBackup(p[2])

Overlapping(p) == p[1].startISO < p[2].endISO /\ p[2].startISO < p[1].endISO

\* hours from the end of the earlier shift to the start of the later one
RestGap(p) == p[2].startISO - p[1].endISO

TooClose(p, ctx) ==
  ctx.ruleConfig.restHoursMin > 0 /\ RestGap(p) < ctx.ruleConfig.restHoursMin

Violates(p, ctx) == Overlapping(p) \/ TooClose(p, ctx)

\* the received shifts' neighbours in both timelines of a swap of a and b
BothNeighbours(a, b, ctx) ==
  ReceivedNeighbours(ctx, a, b) \cup ReceivedNeighbours(ctx, b, a)

BothWithAny(a, b, ctx) == ReceivedWithAny(ctx, a, b) \cup ReceivedWithAny(ctx, b, a)

AcceptedSomeOrder == (RanAB /\ evalAB.feasible) \/ (RanBA /\ evalBA.feasible)

\* C6 as claimed: when a pair is accepted, the received shift neither overlaps
\* nor comes closer than restHoursMin to ANY other shift of the receiver's
\* post-swap timeline, unless one of the two is a BACKUP.
C6_SeparatedFromAll ==
  AcceptedSomeOrder =>
    \A p \in BothWithAny(world.a, world.b, world.ctx) :
      InvolvesBackup(p) \/ ~Violates(p, world.ctx)

\* C6 amended: when a pair is accepted, the received shift neither overlaps nor
\* comes closer than restHoursMin to the shifts chronologically ADJACENT to it
\* (next to it in start order) in the receiver's post-swap timeline, unless one
\* of the two is a BACKUP.
C6_SeparatedFromNeighbours ==
  AcceptedSomeOrder =>
    \A p \in BothNeighbours(world.a, world.b, world.ctx) :
      InvolvesBackup(p) \/ ~Violates(p, world.ctx)

\* C6 witness: an accepted pair whose received shift has a neighbour before and
\* a neighbour after it, neither a BACKUP, with a rest minimum configured.
C6_Witness ==
  /\ RanAB /\ evalAB.feasible
  /\ world.ctx.ruleConfig.restHoursMin > 0
  /\ \E p \in ReceivedNeighbours(world.ctx, world.a, world.b) :
       p[2].id = world.b.id /\ ~InvolvesBackup(p)
  /\ \E p \in ReceivedNeighbours(world.ctx, world.a, world.b) :
       p[1].id = world.b.id /\ ~InvolvesBackup(p)

\* the adjacent pairs holding the received shift, in the order they are walked
FocusWalk(ctx, given, received) ==
  LET tl == SortedPostSwap(ctx, given, received)
  IN SelectSeq([i \in 1..(Len(tl) - 1) |-> <<tl[i], tl[i + 1]>>],
               LAMBDA p : p[1].id = received.id \/ p[2].id = received.id)

\* first person's timeline, then second person's
WalkedPairs(a, b, ctx) == FocusWalk(ctx, a, b) \o FocusWalk(ctx, b, a)

\* the walked pairs without a BACKUP that overlap or rest too little
HardViolations(a, b, ctx) ==
  SelectSeq(WalkedPairs(a, b, ctx), LAMBDA p : ~InvolvesBackup(p) /\ Violates(p, ctx))

\* any two non-backup shifts adjacent in one of the post-swap timelines
AdjacentHardPairs(a, b, ctx) ==
  { p \in AdjacentPairs(ctx, a, b) \cup AdjacentPairs(ctx, b, a) : ~InvolvesBackup(p) }

RejectedWith(eval, code) ==
  ~eval.feasible /\ eval.reason.kind = "rule-violation" /\ eval.reason.code = code

\* C7 as claimed, for explainSwap(x, y, ctx) = eval
RestBoundaryAnyPair(eval, x, y, ctx) ==
  LET m == ctx.ruleConfig.restHoursMin
  IN (GatesPass(x, y, ctx) /\ m > 0) =>
       /\ (\E p \in AdjacentHardPairs(x, y, ctx) : RestGap(p) < m)
            => RejectedWith(eval, "REST_WINDOW")
       /\ (\A p \in AdjacentHardPairs(x, y, ctx) : RestGap(p) >= m) => eval.feasible

\* C7 amended, for explainSwap(x, y, ctx) = eval
RestBoundaryReceived(eval, x, y, ctx) ==
  LET m == ctx.ruleConfig.restHoursMin
      hard == HardViolations(x, y, ctx)
  IN (GatesPass(x, y, ctx) /\ m > 0) =>
       /\ hard # <<>>
            => RejectedWith(eval, IF Overlapping(hard[1]) THEN "OVERLAP" ELSE "REST_WINDOW")
       /\ (\A p \in BothNeighbours(x, y, ctx) : InvolvesBackup(p) \/ RestGap(p) >= m)
            => eval.feasible

\* C7 as claimed: with restHoursMin = m > 0, two non-backup shifts adjacent in a
\* post-swap timeline with a rest gap below m reject the swap with rule-violation
\* REST_WINDOW, and a gap of exactly m does not reject it.
C7_AnyAdjacentPair ==
  /\ RanAB => RestBoundaryAnyPair(evalAB, world.a, world.b, world.ctx)
  /\ RanBA => RestBoundaryAnyPair(evalBA, world.b, world.a, world.ctx)

\* C7 amended: with restHoursMin = m > 0, two non-backup adjacent shifts of a
\* post-swap timeline ONE OF WHICH IS THE RECEIVED SHIFT and whose rest gap is
\* below m reject the swap with rule-violation, code REST_WINDOW when the first
\* such pair met does not overlap and OVERLAP when it does; if every such pair
\* rests m or more, exactly m included, the swap is not rejected.
C7_RestBoundary ==
  /\ RanAB => RestBoundaryReceived(evalAB, world.a, world.b, world.ctx)
  /\ RanBA => RestBoundaryReceived(evalBA, world.b, world.a, world.ctx)

\* C7 witness: an accepted swap in which the received shift rests exactly the
\* minimum after a non-backup neighbour.
C7_Witness ==
  /\ RanAB /\ evalAB.feasible
  /\ world.ctx.ruleConfig.restHoursMin > 0
  /\ \E p \in ReceivedNeighbours(world.ctx, world.a, world.b) :
       /\ ~InvolvesBackup(p)
       /\ p[2].id = world.b.id
       /\ RestGap(p) = world.ctx.ruleConfig.restHoursMin

\* what an advisory says: its code, whose timeline, and the two shifts
Note(code, residentId, shiftIds) ==
  [code |-> code, residentId |-> residentId, shifts |-> shiftIds]

\* the notes of the advisories a result carries
AdvisoryNotes(eval) ==
  { Note(eval.advisories[i].code, eval.advisories[i].residentId,
         {eval.advisories[i].backupShiftId, eval.advisories[i].otherShiftId}) :
      i \in 1..Len(eval.advisories) }

\* one note for every overlap and every short rest between a received shift and
\* a neighbour when one of the two is a BACKUP
SoftViolationNotes(a, b, ctx) ==
  { Note("OVERLAP", p[1].residentId, {p[1].id, p[2].id}) :
      p \in { q \in BothNeighbours(a, b, ctx) : InvolvesBackup(q) /\ Overlapping(q) } }
  \cup
  { Note("REST_WINDOW", p[1].residentId, {p[1].id, p[2].id}) :
      p \in { q \in BothNeighbours(a, b, ctx) : InvolvesBackup(q) /\ TooClose(q, ctx) } }

\* C8 for explainSwap(x, y, ctx) = eval
SoftDowngrade(eval, x, y, ctx) ==
  GatesPass(x, y, ctx) =>
    /\ ~eval.feasible => (eval.reason.kind = "rule-violation"
                          /\ eval.reason.code \in {"OVERLAP", "REST_WINDOW"}
                          /\ HardViolations(x, y, ctx) # <<>>)
    /\ HardViolations(x, y, ctx) = <<>> =>
         /\ eval.feasible
         /\ AdvisoryNotes(eval) = SoftViolationNotes(x, y, ctx)
         /\ Len(eval.advisories) = Cardinality(SoftViolationNotes(x, y, ctx))
         /\ \A i \in 1..Len(eval.advisories) : eval.advisories[i].kind = "backup-conflict"

RestrictionsFor(isObserver, incoming) ==
  LET nightFloat == incoming.type = "NIGHT FLOAT"
      onSaturday == DayOfWeek(incoming.startISO) = 6
      onFriday == DayOfWeek(incoming.startISO) = 5
      daytimeCall == incoming.type \in {"MOSES", "WEILER"} /\ HourOf(incoming.startISO) < 17
  IN IF isObserver
     THEN (IF nightFloat /\ ~onSaturday THEN {"observer-night-float"} ELSE {})
          \cup (IF onFriday THEN {"observer-friday-call"} ELSE {})
          \cup (IF onSaturday /\ daytimeCall THEN {"observer-saturday-daytime"} ELSE {})
     ELSE (IF nightFloat /\ ~onSaturday THEN {"nonobserver-night-float"} ELSE {})

\* C9 for explainSwap(x, y, ctx) = eval
ShabbosRule(eval, x, y, ctx) ==
  LET forX == RestrictionsFor(x.residentId \in ctx.shabbosObservers, y)
      forY == RestrictionsFor(y.residentId \in ctx.shabbosObservers, x)
  IN (x.id # y.id /\ PrepareFailure(x, y, ctx) = "none") =>
       /\ eval.reason.kind = "shabbos-restriction" <=> (forX \cup forY) # {}
       /\ (forX # {}) =>
            /\ eval.reason.residentId = x.residentId
            /\ eval.reason.shiftId = y.id
            /\ eval.reason.restriction \in forX
       /\ (forX = {} /\ forY # {}) =>
            /\ eval.reason.residentId = y.residentId
            /\ eval.reason.shiftId = x.id
            /\ eval.reason.restriction \in forY

\* C9: once the checks of prepareSwap pass, the swap is rejected with
\* shabbos-restriction exactly when, for one of the two persons, an observer
\* would receive a NIGHT FLOAT not starting on Saturday, a shift starting on a
\* Friday or a Saturday-daytime MOSES/WEILER call, or a non-observer would
\* receive a NIGHT FLOAT not starting on Saturday; the restriction reported is
\* one that applies to the first restricted person; a Saturday NIGHT FLOAT
\* restricts no one.
C9_ShabbosRestriction ==
  /\ RanAB => ShabbosRule(evalAB, world.a, world.b, world.ctx)
  /\ RanBA => ShabbosRule(evalBA, world.b, world.a, world.ctx)

\* C9 witness: an observer is refused a Saturday-daytime call while the other
\* person, not an observer, receives a Saturday NIGHT FLOAT.
C9_Witness ==
  /\ RanAB
  /\ evalAB.reason.kind = "shabbos-restriction"
  /\ evalAB.reason.restriction = "observer-saturday-daytime"
  /\ evalAB.reason.residentId = world.a.residentId
  /\ world.b.residentId \notin world.ctx.shabbosObservers
  /\ world.a.type = "NIGHT FLOAT" /\ DayOfWeek(world.a.startISO) = 6

\* the days the claim has a blocking rotation week starting on day w reach
ContiguousReach(w) == (w - 2)..(w + 8)

\* the rotation assignments of a resident that block a shift
BlockingAssignments(resident, shift) ==
  { i \in 1..Len(resident.rotations) :
      isRotationBlockedForResident(resident.rotations[i], resident, shift) }

\* C10 for explainSwap(x, y, ctx) = eval, once the checks before the first
\* person's rotation block pass
RotationReach(eval, x, y, ctx) ==
  LET resident == OwnerOf(ctx, x)
      incoming == Received(x, y)
      days == DayOf(incoming.startISO)..DayOf(incoming.endISO)
      reached == UNION { ContiguousReach(DayOf(resident.rotations[i].weekStartISO)) :
                           i \in BlockingAssignments(resident, incoming) }
  IN (x.id # y.id /\ EarlyFailure(x, y, ctx) = "none" /\ ~VacationFails(ctx, x, y)) =>
       ((eval.reason.kind = "rotation-block" /\ eval.reason.residentId = x.residentId)
          <=> (days \cap reached # {}))

\* C10 as claimed: a blocking rotation week starting on day W blocks exactly the
\* contiguous days W - 2 .. W + 8, and the incoming shift is rejected with
\* rotation-block if and only if a day it spans lies in that range.
C10_ContiguousReach ==
  /\ RanAB => RotationReach(evalAB, world.a, world.b, world.ctx)
  /\ RanBA => RotationReach(evalBA, world.b, world.a, world.ctx)

(***************************************************************************)
(* Properties of the engine over a growing dataset.                        *)
(***************************************************************************)
\* the focal pair was evaluated and scored before and after the append
AskedAgain == earlier.known /\ evalAB # NotRun /\ pressure.scored

\* C11 as claimed: appending one shift whose start is more than 96 hours from
\* the starts of both focal shifts, and rebuilding the context, changes neither
\* the accept/reject outcome of explainSwap nor the score of the focal pair.
C11_DistantIrrelevant ==
  AskedAgain =>
    /\ evalAB.feasible = earlier.evaluation.feasible
    /\ pressure.breakdown.score = earlier.breakdown.score

(***************************************************************************)
(* Properties of the scoring engine.  Numbers are exact fractions.         *)
(***************************************************************************)
\* the sum of delta over the calls of a section
RECURSIVE SumDeltas(_, _)
SumDeltas(calls, n) ==
  IF n = 0 THEN Zero ELSE RatAdd(SumDeltas(calls, n - 1), calls[n].delta)

SectionConsistent(section) ==
  /\ RatSub(section.swappedTotal, section.baselineTotal) = section.deltaTotal
  /\ SumDeltas(section.calls, Len(section.calls)) = section.deltaTotal

IsAdjustment(call) == call.weight = Zero

RECURSIVE SumAdjustments(_, _)
SumAdjustments(calls, n) ==
  IF n = 0 THEN Zero
  ELSE RatAdd(SumAdjustments(calls, n - 1),
              IF IsAdjustment(calls[n]) THEN calls[n].delta ELSE Zero)

\* the score of a breakdown before the consult penalty and the rotation bonuses
\* were added to it
ScoreBeforeAdjustments(breakdown) ==
  RatSub(breakdown.score,
         RatAdd(SumAdjustments(breakdown.original.calls, Len(breakdown.original.calls)),
                SumAdjustments(breakdown.counterpart.calls,
                               Len(breakdown.counterpart.calls))))

ScoreBound == SCORE_SCALE * 4 * 4

\* C13 as claimed: the score before the additive consult and rotation
\* adjustments lies between -1600 and 1600.
C13_ScoreBounded ==
  pressure.scored =>
    /\ ~RatLess(ScoreBeforeAdjustments(pressure.breakdown), <<-ScoreBound, 1>>)
    /\ ~RatLess(<<ScoreBound, 1>>, ScoreBeforeAdjustments(pressure.breakdown))

\* the cases in which the claim has calculateSwapPressure score nothing
Unscorable(a, b, ctx) ==
  \/ a = Undefined \/ b = Undefined \/ ctx = Undefined
  \/ a.id = b.id
  \/ a.residentId = b.residentId
  \/ a.residentId \notin DOMAIN ctx.residentsById
  \/ b.residentId \notin DOMAIN ctx.residentsById
  \/ b.type \notin ctx.residentsById[a.residentId].eligibleShiftTypes
  \/ a.type \notin ctx.residentsById[b.residentId].eligibleShiftTypes

\* the raw two-section delta of a pair, before any scaling
RawDelta(a, b, ctx) ==
  LET restMin == Max(0, ctx.ruleConfig.restHoursMin)
  IN RatAdd(buildSection(a, [b EXCEPT !.residentId = a.residentId],
                         WithoutId(ShiftsOf(ctx, a.residentId), a.id), restMin).deltaTotal,
            buildSection(b, [a EXCEPT !.residentId = b.residentId],
                         WithoutId(ShiftsOf(ctx, b.residentId), b.id), restMin).deltaTotal)

OnWeekendOrHoliday(shift) ==
  shift.isHoliday \/ DayOfWeek(shift.startISO) \in {0, 6} \/ DayOfWeek(shift.endISO) \in {0, 6}

\* the multiplier as claimed: only a night float that does not start on a
\* Saturday counts as a night-float call
MultiplierNonSaturday(shift) ==
  LET nightFloat == shift.type = "NIGHT FLOAT" /\ DayOfWeek(shift.startISO) # 6
  IN IF shift.type = "BACKUP" THEN 1
     ELSE IF OnWeekendOrHoliday(shift) /\ nightFloat THEN 4
     ELSE IF OnWeekendOrHoliday(shift) \/ nightFloat THEN 2
     ELSE 1

\* the multiplier with every night float counting as a night-float call
MultiplierAnyNightFloat(shift) ==
  LET nightFloat == shift.type = "NIGHT FLOAT"
  IN IF shift.type = "BACKUP" THEN 1
     ELSE IF OnWeekendOrHoliday(shift) /\ nightFloat THEN 4
     ELSE IF OnWeekendOrHoliday(shift) \/ nightFloat THEN 2
     ELSE 1

\* C14 as claimed: the multiplier is 1 for a BACKUP and for a shift neither on
\* a weekend/holiday nor a night float, 2 for a weekend/holiday shift or a
\* non-Saturday night float but not both, 4 for both; the raw score is
\* multiplied by 100 times the multipliers of the two traded shifts.
C14_NonSaturdayNightFloat ==
  (pressure.scored /\ ~Unscorable(world.a, world.b, world.ctx)) =>
    ScoreBeforeAdjustments(pressure.breakdown)
      = RatScale(RawDelta(world.a, world.b, world.ctx),
                 SCORE_SCALE * MultiplierNonSaturday(world.a) * MultiplierNonSaturday(world.b))

\* C14 amended: the multiplier is 1 for a BACKUP and for a shift neither on a
\* weekend/holiday nor a night float, 2 for a weekend/holiday shift or a night
\* float (of any day) but not both, 4 for a night float on a weekend/holiday,
\* a Saturday night float included; the raw score is multiplied by 100 times
\* the multipliers of the two traded shifts.
C14_Multiplier ==
  (pressure.scored /\ ~Unscorable(world.a, world.b, world.ctx)) =>
    ScoreBeforeAdjustments(pressure.breakdown)
      = RatScale(RawDelta(world.a, world.b, world.ctx),
                 SCORE_SCALE * MultiplierAnyNightFloat(world.a)
                   * MultiplierAnyNightFloat(world.b))

\* C14 witness: a Saturday night float traded for a weekday night float, with
\* a raw delta other than 0, scored at 100 * 4 * 2 times the raw delta.
C14_Witness ==
  /\ pressure.scored
  /\ ~Unscorable(world.a, world.b, world.ctx)
  /\ world.a.type = "NIGHT FLOAT" /\ DayOfWeek(world.a.startISO) = 6
  /\ world.b.type = "NIGHT FLOAT" /\ ~OnWeekendOrHoliday(world.b)
  /\ RawDelta(world.a, world.b, world.ctx) # Zero
  /\ ScoreBeforeAdjustments(pressure.breakdown)
       = RatScale(RawDelta(world.a, world.b, world.ctx), 800)

ZeroSection(section) ==
  /\ section.calls = <<>>
  /\ section.baselineTotal = Zero
  /\ section.swappedTotal = Zero
  /\ section.deltaTotal = Zero

\* C15: calculateSwapPressure returns a breakdown whose score, baselineScore,
\* swappedScore and section totals are 0 and whose call lists are empty
\* whenever an input is missing, the two shifts have the same id or the same
\* owner, an owner is not in the index, or a person is not eligible for the
\* type they would receive.
C15_ZeroBreakdown ==
  (pressure.scored /\ Unscorable(world.a, world.b, world.ctx)) =>
    /\ pressure.breakdown.score = Zero
    /\ pressure.breakdown.baselineScore = Zero
    /\ pressure.breakdown.swappedScore = Zero
    /\ ZeroSection(pressure.breakdown.original)
    /\ ZeroSection(pressure.breakdown.counterpart)

\* C15 witness: the second person is not eligible for the night float they
\* would receive, while both hold further shifts and high-pressure rotations
\* that a scored pair would have counted.
C15_Witness ==
  /\ pressure.scored
  /\ world.a # Undefined /\ world.b # Undefined /\ world.ctx # Undefined
  /\ world.a.id # world.b.id
  /\ world.b.residentId = "R2"
  /\ world.b.type \in world.ctx.residentsById["R1"].eligibleShiftTypes
  /\ world.a.type \notin world.ctx.residentsById["R2"].eligibleShiftTypes
  /\ Len(world.ctx.shiftsByResident["R1"]) > 1
  /\ Len(world.ctx.shiftsByResident["R2"]) > 1
  /\ resolveRotationPressureBonus(world.ctx.residentsById["R1"], world.a) > 0
  /\ ZeroSection(pressure.breakdown.original)

(***************************************************************************)
(* Properties of the pool's decision, queues and teardown.                 *)
(***************************************************************************)
\* the three conditions under which a batch of n pairs is run serially
SerialCase(p, n) ==
  \/ n < p.threshold
  \/ ~canSpawnWorkers(p.spawnability, p.globalWorker)
  \/ p.size <= 1

\* this step is an evaluatePairs call that a live pool accepts
CallAccepted == pc = "idle" /\ pc' # "idle" /\ ~pool.terminated

\* C16: a call with fewer pairs than the threshold (200 when none is
\* configured), on a pool that cannot spawn workers, or on a pool of size at
\* most 1 is evaluated serially in the calling step: it returns the result of
\* evaluatePairsSync, creates no worker and posts no message; every other
\* call, and no call of these three kinds, dispatches to workers.
C16_SerialDecision ==
  [][CallAccepted =>
       IF SerialCase(pool, Len(batch'))
       THEN /\ mode' = "sync"
            /\ pc' = "done"
            /\ returned' = evaluatePairsSync(batch', world.ctx)
            /\ pool'.adapters = pool.adapters
            /\ tasks' = <<>>
       ELSE /\ mode' = "worker"
            /\ pc' = "waiting"
            /\ pool'.adapters > 0
            /\ Len(batch') > 0 => Len(tasks') > 0]_vars

\* C16 witness: a pool that can spawn, has two slots and already holds its
\* workers runs a batch below its threshold serially
C16_Witness ==
  /\ mode = "sync"
  /\ pc = "done"
  /\ Len(batch) > 0
  /\ Len(batch) < pool.threshold
  /\ canSpawnWorkers(pool.spawnability, pool.globalWorker)
  /\ pool.size > 1
  /\ pool.adapters > 0
  /\ tasks = <<>>
  /\ returned = evaluatePairsSync(batch, world.ctx)

\* C17: on every worker of every pool, with several evaluatePairs calls in
\* flight, at most one message is held and one task listens at a time; a
\* task's message has been posted only if every task submitted earlier to
\* the same worker has its result or error; the listeners on a worker are
\* tasks posted to it; and the response a task received is the worker's
\* response to that task's own message.
C17_OneTaskAtATime ==
  /\ \A p \in 1..Len(workers) : \A k \in 1..Len(workers[p]) :
       /\ Len(workers[p][k].mailbox) <= 1
       /\ Cardinality(workers[p][k].listeners) <= 1
       /\ \A i \in workers[p][k].listeners :
            /\ jobs[i].state = "posted"
            /\ jobs[i].pool = p
            /\ jobs[i].adapter + 1 = k
  /\ \A j \in 1..Len(jobs) : \A i \in Predecessors(j) :
       jobs[j].state # "queued" => Settled(jobs[i])
  /\ \A i \in 1..Len(jobs) :
       jobs[i].state = "answered" => jobs[i].response = onmessage(jobs[i].message)

\* C17 witness: two calls are in flight on the same pool; a task of the
\* second was queued behind a task of the first on the same worker, was
\* posted once that task had its result, and has been answered
C17_Witness ==
  /\ Len(callers) = 2
  /\ callers[1].pc = "waiting"
  /\ callers[2].pc = "waiting"
  /\ callers[1].pool = callers[2].pool
  /\ \E j \in 1..Len(jobs) : \E i \in Predecessors(j) :
       /\ jobs[i].call = 1
       /\ jobs[j].call = 2
       /\ Settled(jobs[i])
       /\ jobs[j].state = "answered"
       /\ jobs[j].response = onmessage(jobs[j].message)

\* every worker of a terminated pool has been terminated once and the pool
\* holds none; the workers of a live pool run; the singleton is never a
\* terminated pool, and no call through the module was refused
TornDown ==
  /\ \A p \in 1..Len(pools) :
       /\ pools[p].terminated =>
            /\ pools[p].adapters = 0
            /\ \A k \in 1..Len(workers[p]) : workers[p][k].terminations = 1
       /\ ~pools[p].terminated =>
            /\ Len(workers[p]) = pools[p].adapters
            /\ \A k \in 1..Len(workers[p]) : workers[p][k].terminations = 0
  /\ singletonPool # null => ~pools[singletonPool].terminated
  /\ \A c \in 1..Len(callers) :
       (callers[c].via = "module" /\ callers[c].pc = "failed") => callers[c].jobs # <<>>

\* a step of the teardown operations or of the module's evaluatePairs
TeardownStep ==
  /\ (PoolTerminate /\ pools[1].terminated) => UNCHANGED vars
  /\ (terminatePool /\ singletonPool = null) => UNCHANGED vars
  /\ terminatePool => singletonPool' = null
  /\ (singletonPool = null /\ singletonPool' # null) =>
       /\ singletonPool' = Len(pools) + 1
       /\ Len(pools') = Len(pools) + 1
       /\ ~pools'[singletonPool'].terminated
       /\ Len(callers') = Len(callers) + 1
       /\ callers'[Len(callers')].pool = singletonPool'
       /\ callers'[Len(callers')].pc # "failed"

\* C18: terminate() terminates every live worker of the pool exactly once
\* and leaves the pool without workers; a second terminate() changes nothing;
\* terminatePool() also clears the singleton, changes nothing when there is
\* none, and the next evaluatePairs of the module creates a fresh pool.
C18_Teardown == [][TeardownStep]_vars /\ []TornDown

\* C18 witness: the singleton was torn down while it held workers, each
\* terminated once, and a later evaluatePairs ran on a fresh singleton
C18_Witness ==
  /\ singletonPool # null
  /\ ~pools[singletonPool].terminated
  /\ \E p \in 1..Len(pools) :
       /\ p # 1
       /\ p # singletonPool
       /\ pools[p].terminated
       /\ pools[p].adapters = 0
       /\ Len(workers[p]) > 1
       /\ \A k \in 1..Len(workers[p]) : workers[p][k].terminations = 1
  /\ \E c \in 1..Len(callers) :
       /\ callers[c].pool = singletonPool
       /\ callers[c].via = "module"
       /\ callers[c].pc = "done"

(***************************************************************************)
(* Properties of the diagnostics summaries.                                *)
(***************************************************************************)
\* the sum of the counts of a histogram
RECURSIVE SumCounts(_)
SumCounts(histogram) ==
  IF DOMAIN histogram = {} THEN 0
  ELSE LET k == CHOOSE x \in DOMAIN histogram : TRUE
       IN histogram[k] + SumCounts([x \in DOMAIN histogram \ {k} |-> histogram[x]])

\* what explainSwap makes of each pair: "accepted" or the kind of its reason
Outcomes(pairs, ctx) ==
  [i \in 1..Len(pairs) |->
     Only({ IF evaluation.feasible THEN "accepted" ELSE evaluation.reason.kind :
            evaluation \in {explainSwap(pairs[i].a, pairs[i].b, ctx)} })]

\* the summary accounts for every pair of the given outcomes
AccountedFor(summary, outcomes, emitted) ==
  /\ summary.defined
  /\ summary.totalPairs = summary.accepted + SumCounts(summary.rejectionReasons)
  /\ summary.accepted = emitted
  /\ summary.accepted = Cardinality({ i \in 1..Len(outcomes) : outcomes[i] = "accepted" })
  /\ \A i \in 1..Len(outcomes) :
       outcomes[i] # "accepted" => outcomes[i] \in DOMAIN summary.rejectionReasons
  /\ \A kind \in DOMAIN summary.rejectionReasons :
       summary.rejectionReasons[kind] =
         Cardinality({ i \in 1..Len(outcomes) : outcomes[i] = kind })

\* the summary accounts for every pair: the accepted ones are the `emitted`
\* ones and each rejected pair is counted once, under the kind of its reason
Accounted(summary, pairs, ctx, emitted) ==
  \A outcomes \in {Outcomes(pairs, ctx)} : AccountedFor(summary, outcomes, emitted)

\* the responses call c received, in dispatch order
ResponsesOf(c) == [k \in 1..Len(callers[c].jobs) |-> jobs[callers[c].jobs[k]].response]

\* C19: in the summary of the serial path, of each chunk evaluated by
\* worker.ts, of all chunks merged and of summarizeRejections, totalPairs is
\* accepted plus the sum of the reason counts, accepted is the number of
\* candidates emitted, and every rejected pair is counted under exactly the
\* kind of its reason.
C19_NoPairDropped ==
  /\ \A c \in 1..Len(callers) :
       /\ (callers[c].pc = "done" /\ callers[c].jobs = <<>>) =>
            Accounted(syncDiagnostics(callers[c].batch, world.ctx), callers[c].batch,
                      world.ctx, Len(callers[c].returned))
       /\ (callers[c].pc = "done" /\ callers[c].jobs # <<>>) =>
            Accounted(settleDiagnostics(callers[c].batch, world.ctx, ResponsesOf(c)),
                      callers[c].batch, world.ctx, Len(callers[c].returned))
       /\ Accounted(summarizeRejections(callers[c].batch, world.ctx), callers[c].batch,
                    world.ctx, Len(evaluatePairsSync(callers[c].batch, world.ctx)))
  /\ \A i \in 1..Len(jobs) :
       jobs[i].state = "answered" =>
         Accounted(jobs[i].response.diagnostics, jobs[i].message.pairs,
                   hydrateContext(jobs[i].message.ctx), Len(jobs[i].response.candidates))

\* C19 witness: three pairs went out in two chunks; the first chunk rejected
\* one pair and the second another for the same kind of reason, the merged
\* summary counts both, and one candidate was returned
C19_Witness ==
  \E c \in 1..Len(callers) :
    /\ callers[c].pc = "done"
    /\ Len(callers[c].batch) = 3
    /\ Len(callers[c].jobs) = 2
    /\ Len(callers[c].returned) = 1
    /\ \E kind \in DOMAIN settleDiagnostics(callers[c].batch, world.ctx,
                                            ResponsesOf(c)).rejectionReasons :
         /\ settleDiagnostics(callers[c].batch, world.ctx,
                              ResponsesOf(c)).rejectionReasons[kind] = 2
         /\ \A k \in 1..2 :
              /\ kind \in DOMAIN ResponsesOf(c)[k].diagnostics.rejectionReasons
              /\ ResponsesOf(c)[k].diagnostics.rejectionReasons[kind] = 1


(***************************************************************************)
(* Faults of the timeline re-validation are reported as values.            *)
(***************************************************************************)
\* what validateResidentTimeline raises for the owner of `given` after
\* the swap
Revalidated(given, received, ctx) ==
  validateResidentTimeline(PostSwapTimeline(ctx, given, received), ctx.ruleConfig,
                           ctx.residentsById[given.residentId],
                           FocusOn({received.id}), BACKUP_SOFT_TYPES)

\* the error that leaves the try block of evaluateSwap: that of the first
\* resident's timeline, else that of the second's
Raised(a, b, ctx) ==
  LET first == Revalidated(a, b, ctx)
  IN IF first.error # "none" THEN first ELSE Revalidated(b, a, ctx)

FaultAsValue(evaluation, a, b, ctx) ==
  (evaluation # NotRun /\ GatesPass(a, b, ctx)) =>
    \A raised \in {Raised(a, b, ctx)} :
      /\ raised.error = "none" => evaluation.feasible
      /\ raised.error \in RuleViolationCodes =>
           /\ ~evaluation.feasible
           /\ evaluation.reason.kind = "rule-violation"
           /\ evaluation.reason.code = raised.error
           /\ evaluation.reason.residentId = raised.residentId
      /\ raised.error \notin RuleViolationCodes \cup {"none"} =>
           /\ ~evaluation.feasible
           /\ evaluation.reason.kind = "unexpected-error"

\* the candidates of the batch are those of its feasible pairs, in order
RestEvaluated ==
  batch # <<>> =>
    /\ Len(returned) = Cardinality({ i \in 1..Len(batch) :
                                       isFeasibleSwap(batch[i].a, batch[i].b, world.ctx) })
    /\ \E i \in 1..Len(returned) : returned[i].a = world.c /\ returned[i].b = world.d

\* C20: a RuleViolationError raised while the post-swap timelines are
\* re-validated is returned as a rule-violation rejection with the error's
\* code and resident id, any other error raised there as an unexpected-error
\* rejection, and a batch holding such a pair still yields the candidates of
\* its remaining pairs
C20_FaultsAsValues ==
  /\ FaultAsValue(evalAB, world.a, world.b, world.ctx)
  /\ FaultAsValue(evalBA, world.b, world.a, world.ctx)
  /\ RestEvaluated

\* C20: one order of a pair was rejected for an unexpected error, the other
\* for a rule violation, and the batch returned its remaining pair alone
C20_Witness ==
  /\ ~evalAB.feasible /\ evalAB.reason.kind = "unexpected-error"
  /\ ~evalBA.feasible /\ evalBA.reason.kind = "rule-violation"
  /\ evalBA.reason.code = "OVERLAP" /\ evalBA.reason.residentId = "R2"
  /\ batch # <<>> /\ Len(returned) = 1 /\ returned[1].a = world.c

(***************************************************************************)
(* IP consults and the rotations that may not take them.                   *)
(***************************************************************************)
IpConsultBannedRotations == {"Angio", "GI"}

\* the rotations of the resident, for the week that holds the start of the
\* shift, that may not take an IP consult
BannedFor(resident, shift) ==
  { resident.rotations[i].rotation : i \in
      { j \in 1..Len(resident.rotations) :
          /\ shift.type = "IP CONSULT"
          /\ resident.rotations[j].rotation \in IpConsultBannedRotations
          /\ DayOf(shift.startISO) - DayOf(resident.rotations[j].weekStartISO) \in 0..6 } }

ConsultBanned(evaluation, given, received, ctx) ==
  \A banned \in { BannedFor(ctx.residentsById[given.residentId], received)
                    \cup BannedFor(ctx.residentsById[received.residentId], given) } :
    (evaluation # NotRun /\ banned # {}) =>
      /\ ~evaluation.feasible
      /\ ~isFeasibleSwap(given, received, ctx)
      /\ evaluation.reason.kind = "ip-consult-rotation-ban"
      /\ evaluation.reason.rotation \in banned

\* C21: a swap that gives an IP CONSULT assignment to a person whose
\* rotation for the week of that assignment is Angio or GI is rejected with
\* reason kind ip-consult-rotation-ban naming that rotation, and
\* isFeasibleSwap returns false
C21_IpConsultBan ==
  /\ ConsultBanned(evalAB, world.a, world.b, world.ctx)
  /\ ConsultBanned(evalBA, world.b, world.a, world.ctx)

(***************************************************************************)
(* Two backup assignments next to each other.                              *)
(***************************************************************************)
\* the timeline holds two BACKUP shifts that do not overlap, BACKUP is the
\* soft type and the rest between the two is below the minimum
BackupsTooClose ==
  /\ world.softTypes = {"BACKUP"}
  /\ \A i \in 1..2 : world.shifts[i].type = "BACKUP"
  /\ \E i, j \in 1..2 :
       /\ world.shifts[i].endISO <= world.shifts[j].startISO
       /\ world.shifts[j].startISO - world.shifts[i].endISO < world.cfg.restHoursMin

\* C22: validateResidentTimeline called with BACKUP as the soft type returns
\* no advisory and raises no violation for two adjacent BACKUP assignments
\* whose rest gap is below restHoursMin
C22_BackupsIgnored ==
  (validation # NotValidated /\ BackupsTooClose) =>
    (validation.error = "none" /\ validation.advisories = <<>>)

(***************************************************************************)
(* The chunks of a dispatched batch.                                       *)
(***************************************************************************)
\* the pairs of the chunks put one after the other in dispatch order
RECURSIVE ChunksUpTo(_)
ChunksUpTo(k) == IF k = 0 THEN <<>> ELSE ChunksUpTo(k - 1) \o tasks[k].message.pairs

\* the least c >= 1 with c * w >= n: max(1, ceil(n / w))
ChunkSizeFor(n, w) == CHOOSE c \in 1..(n + 1) : c * w >= n /\ (c = 1 \/ (c - 1) * w < n)

\* the tasks of the batch in flight cut it into contiguous chunks of the
\* size for w workers and hand chunk i (from 0) to worker i mod w
Partitioned(w) ==
  \A size \in {ChunkSizeFor(Len(batch), w)} :
    /\ ChunksUpTo(Len(tasks)) = batch
    /\ \A k \in 1..Len(tasks) :
         /\ Len(tasks[k].message.pairs) \in 1..size
         /\ k < Len(tasks) => Len(tasks[k].message.pairs) = size
         /\ tasks[k].adapter = (k - 1) % w
         /\ tasks[k].message.ctx = serializeContext(world.ctx)
    /\ Len(tasks) <= w
    /\ \A j, k \in 1..Len(tasks) : tasks[j].adapter = tasks[k].adapter => j = k

\* C23: on the parallel path the batch is cut into contiguous slices of size
\* max(1, ceil(n / w)) in input order, every pair is in exactly one chunk,
\* there are at most w chunks, chunk i goes to worker i mod w, no worker
\* gets two chunks of the batch and every chunk carries the same serialized
\* context
C23_ChunkPartition == mode = "worker" => Partitioned(pool.size)

\* C23: three pairs are in flight on two workers, as a chunk of two pairs
\* on worker 0 and a chunk of one pair on worker 1
C23_Witness ==
  /\ mode = "worker" /\ pc = "waiting" /\ Len(batch) = 3 /\ pool.adapters = 2
  /\ Len(tasks) = 2
  /\ Len(tasks[1].message.pairs) = 2 /\ tasks[1].adapter = 0
  /\ Len(tasks[2].message.pairs) = 1 /\ tasks[2].adapter = 1

(***************************************************************************)
(* Waiting for the chunks.                                                 *)
(***************************************************************************)
AllAnswered == \A i \in 1..Len(tasks) : tasks[i].state = "answered"

\* a dispatched call returns its result only by a step taken when every
\* chunk has its response
ResultAfterAll ==
  [][(mode = "worker" /\ pc' = "done" /\ pc # "done") => (pc = "waiting" /\ AllAnswered)]_vars

\* while a chunk is unanswered the call stays pending or fails; it does
\* not complete
NoTimeout == [](mode = "worker" /\ ~AllAnswered => pc # "done")

\* some chunk of the call will get no response: its worker raised an error,
\* or was terminated before it answered
Unanswerable ==
  \E i \in 1..Len(tasks) :
    \/ tasks[i].state = "errored"
    \/ pool.terminated /\ tasks[i].state \in {"queued", "posted"}

\* C24: on the parallel path evaluatePairs delivers its result only after
\* the response of every chunk it dispatched has been received; nothing
\* completes the call while a chunk is unanswered; and when the workers
\* eventually answer every task posted to them, a pending call eventually
\* completes
C24_WaitForAll ==
  /\ ResultAfterAll
  /\ NoTimeout
  /\ (pc = "waiting") ~> (pc = "done" \/ Unanswerable)

\* C24: a dispatched call has completed with the responses of two chunks
C24_Witness ==
  /\ mode = "worker" /\ pc = "done" /\ Len(tasks) = 2 /\ AllAnswered

(***************************************************************************)
(* Violations between shifts a person already holds.                       *)
(***************************************************************************)
\* the adjacent pairs of the two post-swap timelines that hold no received
\* shift and overlap or rest too little
UnrelatedViolations(a, b, ctx) ==
  { p \in (AdjacentPairs(ctx, a, b) \ ReceivedNeighbours(ctx, a, b))
            \cup (AdjacentPairs(ctx, b, a) \ ReceivedNeighbours(ctx, b, a)) :
      Violates(p, ctx) }

\* for explainSwap(x, y, ctx) = eval: the timeline outcome stems from the
\* pairs that hold a received shift
OnlyReceivedValidated(eval, x, y, ctx) ==
  GatesPass(x, y, ctx) =>
    /\ (\A p \in BothNeighbours(x, y, ctx) : ~Violates(p, ctx)) =>
         (eval.feasible /\ eval.advisories = <<>>)
    /\ (~eval.feasible) => \E p \in BothNeighbours(x, y, ctx) : Violates(p, ctx)
    /\ \A i \in 1..Len(eval.advisories) :
         \E p \in BothNeighbours(x, y, ctx) :
           /\ Violates(p, ctx)
           /\ {p[1].id, p[2].id}
                = {eval.advisories[i].backupShiftId, eval.advisories[i].otherShiftId}

\* C25: an overlap or rest shortfall between two shifts a person already
\* holds, neither of them the shift received in the swap, never rejects the
\* pair and never produces an advisory: a timeline rejection and every
\* advisory stem from an adjacent pair that holds the received shift
C25_UnrelatedIgnored ==
  /\ RanAB => OnlyReceivedValidated(evalAB, world.a, world.b, world.ctx)
  /\ RanBA => OnlyReceivedValidated(evalBA, world.b, world.a, world.ctx)

\* C25: a swap was accepted without advisories although two shifts the
\* receiver already holds, neither a BACKUP, overlap
C25_Witness ==
  /\ RanAB /\ evalAB.feasible /\ evalAB.advisories = <<>>
  /\ \E p \in UnrelatedViolations(world.a, world.b, world.ctx) :
       ~InvolvesBackup(p) /\ Overlapping(p)

(***************************************************************************)
(* The context is read, never written.                                     *)
(***************************************************************************)
\* C26: no explainSwap, calculateSwapPressure, evaluatePairsSync or
\* evaluatePairs call changes the context's ruleConfig, residentsById, any
\* person's list in shiftsByResident or the shabbosObservers set: the
\* post-swap timelines are copies and the observer set stays the one of
\* the index build
C26_ContextReadOnly ==
  [][/\ world'.ctx.ruleConfig = world.ctx.ruleConfig
     /\ world'.ctx.residentsById = world.ctx.residentsById
     /\ world'.ctx.shiftsByResident = world.ctx.shiftsByResident
     /\ world'.ctx.shabbosObservers = world.ctx.shabbosObservers]_vars

\* C26: a swap whose post-swap timelines were built and validated has been
\* explained, a pair scored and a batch with an accepted pair evaluated on
\* the workers
C26_Witness ==
  /\ evalAB # NotRun /\ evalAB.feasible
  /\ pressure # NotScored
  /\ mode = "worker" /\ Len(returned) > 0

(***************************************************************************)
(* The order of the candidates a dispatched call returns.                  *)
(***************************************************************************)
\* the pairs of a list of candidates
PairsOf(candidates) ==
  [i \in 1..Len(candidates) |-> ShiftPair(candidates[i].a, candidates[i].b)]

\* the pairs of the batch that explainSwap accepts, in input order
AcceptedInOrder ==
  SelectSeq(batch, LAMBDA pair : isFeasibleSwap(pair.a, pair.b, world.ctx))

\* C27: when the workers ran worker.ts and no fallback occurred, the list
\* evaluatePairs returns on the parallel path holds the accepted pairs in
\* the order of the input pair list, in whatever order the chunks were
\* answered
C27_InputOrder ==
  (DeliveredByWorkers /\ WorkersHonest /\ ~GuardFails) => PairsOf(returned) = AcceptedInOrder

\* C27: two chunks each brought an accepted pair, and the first candidate
\* returned is that of the first chunk
C27_Witness ==
  /\ DeliveredByWorkers /\ WorkersHonest /\ ~GuardFails
  /\ Len(tasks) = 2 /\ Len(returned) = 2
  /\ \A k \in 1..2 : PairsOf(tasks[k].response.candidates) = <<PairsOf(returned)[k]>>

(***************************************************************************)
(* A worker raises an error.                                               *)
(***************************************************************************)
\* a job of call c was rejected by handleError
HasFailedJob(c) ==
  \E k \in 1..Len(callers[c].jobs) : jobs[callers[c].jobs[k]].state = "errored"

\* such a call delivers nothing: it is pending or has failed, never done
FailsWithoutCandidates ==
  \A c \in 1..Len(callers) :
    HasFailedJob(c) => (callers[c].pc \in {"waiting", "failed"} /\ callers[c].returned = <<>>)

\* the only step such a call takes is its rejection; no serial evaluation
NoFallbackAfterError ==
  [][\A c \in 1..Len(callers) :
       (HasFailedJob(c) /\ callers'[c] # callers[c]) =>
         callers'[c] = [callers[c] EXCEPT !.pc = "failed"]]_vars

\* a failed job listens to no worker any more
ListenersRemoved ==
  \A i \in 1..Len(jobs) :
    jobs[i].state = "errored" =>
      \A p \in 1..Len(workers) : \A k \in 1..Len(workers[p]) : i \notin workers[p][k].listeners

\* a job waiting behind jobs that were all answered or failed can start
LaterTasksStart ==
  \A i \in 1..Len(jobs) :
    (/\ jobs[i].state = "queued"
     /\ \A j \in Predecessors(i) : jobs[j].state \in {"answered", "errored"}) => Runnable(i)

\* C28: when a worker raises an error while a chunk of a batch is running,
\* evaluatePairs fails: it delivers no candidates and does not fall back to
\* serial evaluation, the failed task's listeners are removed, and the
\* tasks submitted to that worker afterwards are still started
C28_WorkerError ==
  /\ []FailsWithoutCandidates
  /\ NoFallbackAfterError
  /\ []ListenersRemoved
  /\ []LaterTasksStart

\* C28: a call has failed on a chunk whose worker raised an error, and a
\* chunk submitted to that worker afterwards has been posted to it
C28_Witness ==
  \E i, j \in 1..Len(jobs) :
    /\ i < j /\ jobs[i].pool = jobs[j].pool /\ jobs[i].adapter = jobs[j].adapter
    /\ jobs[i].state = "errored"
    /\ callers[jobs[i].call].pc = "failed" /\ callers[jobs[i].call].returned = <<>>
    /\ jobs[j].state \in {"posted", "answered"}
    /\ jobs[j].call # jobs[i].call

(***************************************************************************)
(* The codes a timeline rejection can carry.                               *)
(***************************************************************************)
\* the first loop of the re-validation of the timeline of the owner of
\* `given` looks at the received shift only
ChecksReceivedOnly(given, received, ctx) ==
  LET resident == ctx.residentsById[given.residentId]
      got == Received(given, received)
  IN assertShiftsAllowedFrom(SortByStart(PostSwapTimeline(ctx, given, received)), 1,
                             ctx.ruleConfig, resident, FocusOn({got.id}))
       = assertShiftAllowed(got, ctx.ruleConfig, resident)

TimelineCodesOnly(evaluation, given, received, ctx) ==
  /\ (~evaluation.feasible /\ evaluation.reason.kind = "rule-violation")
       => evaluation.reason.code \in {"OVERLAP", "REST_WINDOW"}
  /\ prepareSwap(given, received, ctx) = NoReason
       => /\ ChecksReceivedOnly(given, received, ctx)
          /\ ChecksReceivedOnly(received, given, ctx)
          /\ assertShiftAllowed(Received(given, received), ctx.ruleConfig,
                                ctx.residentsById[given.residentId]) = "ok"
          /\ assertShiftAllowed(Received(received, given), ctx.ruleConfig,
                                ctx.residentsById[received.residentId]) = "ok"

\* a shift the owner of `given` keeps that is outside the whitelist or of a
\* type its holder is not eligible for
KeepsDisallowed(given, ctx) ==
  \E i \in 1..Len(ShiftsOf(ctx, given.residentId)) :
    /\ ShiftsOf(ctx, given.residentId)[i].id # given.id
    /\ assertShiftAllowed(ShiftsOf(ctx, given.residentId)[i], ctx.ruleConfig,
                          ctx.residentsById[given.residentId]) # "ok"

\* C29: explainSwap never returns a rule-violation rejection with code
\* ELIGIBILITY or TYPE_WHITELIST: the re-validation of a timeline checks
\* whitelist and eligibility of the received shift only, which has passed
\* the type-whitelist, eligibility-a and eligibility-b checks of
\* prepareSwap, so a rule violation carries OVERLAP or REST_WINDOW
C29_TimelineCodes ==
  /\ RanAB => TimelineCodesOnly(evalAB, world.a, world.b, world.ctx)
  /\ RanBA => TimelineCodesOnly(evalBA, world.b, world.a, world.ctx)

\* C29: under a whitelist, a pair was rejected for a rule violation in the
\* timeline of a resident who keeps a shift that the whitelist or the
\* resident's eligibility excludes
C29_Witness ==
  /\ RanAB /\ ~evalAB.feasible /\ evalAB.reason.kind = "rule-violation"
  /\ world.ctx.ruleConfig.typeWhitelist # {}
  /\ evalAB.reason.residentId = world.a.residentId
  /\ KeepsDisallowed(world.a, world.ctx)

(***************************************************************************)
(* The life of a pool's workers.                                           *)
(***************************************************************************)
\* the workers of pool p that have not been terminated
LiveWorkers(all, p) == { k \in 1..Len(all[p]) : all[p][k].terminations = 0 }

\* the size the pool built with options has: the explicit size if positive,
\* else max(1, min(4, hardwareConcurrency - 1)), 1 without hardwareConcurrency
StatedSize ==
  IF world.options.size > 0 THEN world.options.size
  ELSE IF runtime.hardwareConcurrency > 0
  THEN Max(1, Min(4, runtime.hardwareConcurrency - 1))
  ELSE 1

\* a pool holds no worker or `size` live ones, none once terminated, and
\* has never created more than `size`
ZeroOrSize ==
  /\ pools[1].size = StatedSize
  /\ \A p \in 1..Len(pools) :
       /\ Cardinality(LiveWorkers(workers, p)) \in {0, pools[p].size}
       /\ pools[p].adapters = Cardinality(LiveWorkers(workers, p))
       /\ Len(workers[p]) \in {0, pools[p].size}
       /\ pools[p].terminated => LiveWorkers(workers, p) = {}

\* the call a step adds, if it adds one
NewCall == Len(callers') = Len(callers) + 1

\* the pool of the call a step adds took the parallel path
NewCallParallel == NewCall /\ callers'[Len(callers')].jobs # <<>>

\* workers are created only by a batch that takes the parallel path on a pool
\* that holds none, `size` of them; any other step creates none
LazilyCreated ==
  \A p \in 1..Len(pools') :
    LET before == IF p <= Len(workers) THEN Len(workers[p]) ELSE 0
    IN IF NewCallParallel /\ callers'[Len(callers')].pool = p /\ before = 0
       THEN Len(workers'[p]) = pools'[p].size
       ELSE Len(workers'[p]) = before

\* evaluatePairs on a terminated pool fails and creates nothing
FailsOnceTerminated ==
  NewCall =>
    LET p == callers'[Len(callers')].pool
    IN (p <= Len(pools) /\ pools[p].terminated)
         => /\ callers'[Len(callers')].pc = "failed"
            /\ callers'[Len(callers')].jobs = <<>>
            /\ workers'[p] = workers[p]

====
